---- MODULE Spec2Model ----
(***************************************************************************)
(* The SQL safety gate of karakuri-sql-agent: the statement normalizer and *)
(* classifier of src/mastra/tools/sql-tool.ts, the confirmation token      *)
(* store of src/mastra/services/sql-token-store.ts and the two entry       *)
(* points that use them (runSQL, executeSqlWithToken / the /sql/execute    *)
(* route).  SQL text is a sequence of one-character strings, so that the   *)
(* regular expressions of the source are computed character by character. *)
(***************************************************************************)
EXTENDS Integers, Sequences, FiniteSets

VARIABLES
    apiKey,     \* mcpConfig.apiKey as the MCP module read it when it was loaded
    mcpLast,    \* the SSE or HTTP request most recently handled, and what became of it
    database,   \* the tables schema_migrations and seed_applications of the database
    run,        \* the runMigrations call: where it stands, what it read, how it ended
    seeded,     \* the seed files whose statements were executed by an earlier run
    applied,    \* the migration statements that succeeded in an earlier run
    manager,    \* the DatabaseManager singleton: its client and initialization fields
    promises,   \* the promises returned by performInitialization, in order of creation
    calls,      \* the ensureInitialized()/execute() calls made on the manager, in order
    clientLog,  \* every statement handed to the libsql client, in order
    transactions, \* the executeTransaction calls: call -> its queries and what it issued
    cleanupInterval, \* SqlTokenStore.cleanupInterval: the timer's handle, or null
    env,        \* process.env.SQL_TOKEN_EXPIRATION_MS, as the store's constructor reads it
    tokens,     \* SqlTokenStore.tokens: token -> [query, createdAt, expiresAt]
    now,        \* the wall clock read by new Date(), in milliseconds
    nreq,       \* number of requests received so far (request ids are 1..nreq)
    pending,    \* requests suspended at `await DatabaseManager...execute(..)`
    dbLog,      \* every call made to DatabaseManager.execute, in order, and how it settled
    minted,     \* token -> the query, time, request and expiry of runSQL's store(token, sql)
    redeemed,   \* the getAndInvalidate calls that returned a query, in order
    last        \* the response most recently returned to a caller

vars == <<apiKey, mcpLast, database, run, seeded, applied, manager, promises, calls, clientLog, transactions, cleanupInterval, env, tokens, now, nreq, pending, dbLog, minted, redeemed, last>>

\* ------------------------------------------------------------------ text

Null == <<>>

LowerLetters == <<"a","b","c","d","e","f","g","h","i","j","k","l","m",
                  "n","o","p","q","r","s","t","u","v","w","x","y","z">>

UpperLetters == <<"A","B","C","D","E","F","G","H","I","J","K","L","M",
                  "N","O","P","Q","R","S","T","U","V","W","X","Y","Z">>

Digits == {"0","1","2","3","4","5","6","7","8","9"}

Range(f) == {f[i] : i \in DOMAIN f}

\* \s of the regular expressions (the characters of it that the texts use)
IsSpace(c) == c \in {" ", "\t", "\n", "\r"}

\* the line terminators that `.` does not match and `$` (flag m) stops at
IsLineTerminator(c) == c \in {"\n", "\r"}

\* [A-Z]
IsUpperLetter(c) == c \in Range(UpperLetters)

\* \w
IsWordChar(c) == c \in Range(UpperLetters) \cup Range(LowerLetters) \cup Digits \cup {"_"}

\* String.prototype.toUpperCase, one character
UpperChar(c) ==
    IF c \in Range(LowerLetters)
    THEN UpperLetters[CHOOSE i \in DOMAIN LowerLetters : LowerLetters[i] = c]
    ELSE c

toUpperCase(s) == [i \in DOMAIN s |-> UpperChar(s[i])]

\* the literal w occurs in s at index i
StartsWithAt(s, i, w) ==
    /\ i >= 1
    /\ i + Len(w) - 1 <= Len(s)
    /\ \A k \in 1..Len(w) : s[i + k - 1] = w[k]

\* \b at the gap before index i (between s[i-1] and s[i])
WordBoundary(s, i) ==
    LET before == i - 1 >= 1 /\ i - 1 <= Len(s) /\ IsWordChar(s[i - 1])
        after  == i >= 1 /\ i <= Len(s) /\ IsWordChar(s[i])
    IN  before # after

\* the index just past the maximal run of \s characters that starts at i
SpaceRunEnd(s, i) ==
    CHOOSE j \in i..(Len(s) + 1) :
        /\ \A k \in i..(j - 1) : IsSpace(s[k])
        /\ (j = Len(s) + 1 \/ ~IsSpace(s[j]))

\* the index just past the maximal run of `.` characters that starts at i
LineEnd(s, i) ==
    CHOOSE j \in i..(Len(s) + 1) :
        /\ \A k \in i..(j - 1) : ~IsLineTerminator(s[k])
        /\ (j = Len(s) + 1 \/ IsLineTerminator(s[j]))

\* .replace(/--.*$/gm, '')
RECURSIVE removeLineComments(_, _)
removeLineComments(s, i) ==
    IF i > Len(s) THEN <<>>
    ELSE IF StartsWithAt(s, i, <<"-", "-">>)
         THEN removeLineComments(s, LineEnd(s, i))
         ELSE <<s[i]>> \o removeLineComments(s, i + 1)

\* .replace(/\/\*[\s\S]*?\*\//g, '')
RECURSIVE removeBlockComments(_, _)
removeBlockComments(s, i) ==
    IF i > Len(s) THEN <<>>
    ELSE LET closers == {j \in (i + 2)..Len(s) : StartsWithAt(s, j, <<"*", "/">>)}
         IN  IF StartsWithAt(s, i, <<"/", "*">>) /\ closers # {}
             THEN removeBlockComments(s, (CHOOSE j \in closers : \A k \in closers : j <= k) + 2)
             ELSE <<s[i]>> \o removeBlockComments(s, i + 1)

\* a normalizer that leaves the line breaks to the white space rule
newlinesToSemicolons_Kept(s, i) == s

\* .replace(/([^;\s])\s*\n\s*([A-Z])/g, '$1; $2')
RECURSIVE newlinesToSemicolons(_, _)
newlinesToSemicolons(s, i) ==
    IF i > Len(s) THEN <<>>
    ELSE LET j == SpaceRunEnd(s, i + 1)
         IN  IF /\ ~IsSpace(s[i])
                /\ s[i] # ";"
                /\ j <= Len(s)
                /\ IsUpperLetter(s[j])
                /\ \E k \in (i + 1)..(j - 1) : s[k] = "\n"
             THEN <<s[i], ";", " ", s[j]>> \o newlinesToSemicolons(s, j + 1)
             ELSE <<s[i]>> \o newlinesToSemicolons(s, i + 1)

\* .replace(/\s+/g, ' ')
RECURSIVE collapseWhitespace(_, _)
collapseWhitespace(s, i) ==
    IF i > Len(s) THEN <<>>
    ELSE IF IsSpace(s[i])
         THEN <<" ">> \o collapseWhitespace(s, SpaceRunEnd(s, i))
         ELSE <<s[i]>> \o collapseWhitespace(s, i + 1)

\* String.prototype.trim
trim(s) ==
    LET keep == {i \in DOMAIN s : ~IsSpace(s[i])}
    IN  IF keep = {} THEN <<>>
        ELSE LET lo == CHOOSE i \in keep : \A k \in keep : i <= k
                 hi == CHOOSE i \in keep : \A k \in keep : i >= k
             IN  SubSeq(s, lo, hi)

normalizeSql(sql) ==
    trim(collapseWhitespace(
        newlinesToSemicolons(
            removeBlockComments(removeLineComments(sql, 1), 1), 1), 1))

\* String.prototype.split(';'): the pieces between the semicolons, empty ones included
RECURSIVE split(_, _)
split(s, i) ==
    LET semis == {j \in i..Len(s) : s[j] = ";"}
    IN  IF semis = {} THEN <<SubSeq(s, i, Len(s))>>
        ELSE LET j == CHOOSE x \in semis : \A k \in semis : x <= k
             IN  <<SubSeq(s, i, j - 1)>> \o split(s, j + 1)

splitSqlStatements(sql) ==
    SelectSeq([k \in DOMAIN split(toUpperCase(normalizeSql(sql)), 1) |->
                  trim(split(toUpperCase(normalizeSql(sql)), 1)[k])],
              LAMBDA st : Len(st) > 0)

\* ------------------------------------------------------------ classifier

\* the keywords of the patterns
W_SELECT == <<"S","E","L","E","C","T">>

W_INSERT == <<"I","N","S","E","R","T">>

W_INTO == <<"I","N","T","O">>

W_UPDATE == <<"U","P","D","A","T","E">>

W_SET == <<"S","E","T">>

W_DELETE == <<"D","E","L","E","T","E">>

W_FROM == <<"F","R","O","M">>

\* /^\s*SELECT\b/
SELECT_PATTERN(st) ==
    LET p == SpaceRunEnd(st, 1)
    IN  StartsWithAt(st, p, W_SELECT) /\ WordBoundary(st, p + 6)

\* /^\s*INSERT\s+INTO\b/
INSERT_INTO_PATTERN(st) ==
    LET p == SpaceRunEnd(st, 1)
        q == SpaceRunEnd(st, p + 6)
    IN  /\ StartsWithAt(st, p, W_INSERT)
        /\ q > p + 6
        /\ StartsWithAt(st, q, W_INTO)
        /\ WordBoundary(st, q + 4)

\* /^\s*UPDATE\s+.*\bSET\b/
UPDATE_SET_PATTERN(st) ==
    LET p == SpaceRunEnd(st, 1)
    IN  /\ StartsWithAt(st, p, W_UPDATE)
        /\ p + 6 <= Len(st)
        /\ IsSpace(st[p + 6])
        /\ \E a \in (p + 7)..SpaceRunEnd(st, p + 6) :
             \E j \in a..Len(st) :
                /\ \A k \in a..(j - 1) : ~IsLineTerminator(st[k])
                /\ StartsWithAt(st, j, W_SET)
                /\ WordBoundary(st, j)
                /\ WordBoundary(st, j + 3)

\* /^\s*DELETE\s+FROM\b/
DELETE_FROM_PATTERN(st) ==
    LET p == SpaceRunEnd(st, 1)
        q == SpaceRunEnd(st, p + 6)
    IN  /\ StartsWithAt(st, p, W_DELETE)
        /\ q > p + 6
        /\ StartsWithAt(st, q, W_FROM)
        /\ WordBoundary(st, q + 4)

\* ALLOWED_SQL_PATTERNS.some(pattern => pattern.test(statement))
ALLOWED_SQL_PATTERNS(st) ==
    \/ SELECT_PATTERN(st)
    \/ INSERT_INTO_PATTERN(st)
    \/ UPDATE_SET_PATTERN(st)
    \/ DELETE_FROM_PATTERN(st)

\* statement.trim().split(/\s+/)[0]
firstWord(st) ==
    LET t == trim(st)
        spaces == {i \in DOMAIN t : IsSpace(t[i])}
    IN  IF spaces = {} THEN t
        ELSE SubSeq(t, 1, (CHOOSE i \in spaces : \A k \in spaces : i <= k) - 1)

\* getForbiddenOperation without the early return: the last statement that
\* no allowed pattern matches decides
getForbiddenOperation_LastWins(sql) ==
    LET statements == splitSqlStatements(sql)
        bad == {i \in DOMAIN statements :
                   Len(trim(statements[i])) > 0 /\ ~ALLOWED_SQL_PATTERNS(statements[i])}
    IN  IF bad = {} THEN Null
        ELSE firstWord(statements[CHOOSE i \in bad : \A k \in bad : i >= k])

\* the first statement that no allowed pattern matches decides
getForbiddenOperation(sql) ==
    LET statements == splitSqlStatements(sql)
        bad == {i \in DOMAIN statements :
                   Len(trim(statements[i])) > 0 /\ ~ALLOWED_SQL_PATTERNS(statements[i])}
    IN  IF bad = {} THEN Null
        ELSE firstWord(statements[CHOOSE i \in bad : \A k \in bad : i <= k])

\* isUpdateOperation looking at the first statement only
isUpdateOperation_FirstOnly(sql) ==
    LET statements == splitSqlStatements(sql)
    IN  /\ Len(statements) > 0
        /\ ~SELECT_PATTERN(statements[1])

\* isUpdateOperation testing the normalized text as a whole
isUpdateOperation_WholeText(sql) ==
    ~SELECT_PATTERN(toUpperCase(normalizeSql(sql)))

\* some statement that is not empty does not match the SELECT pattern
isUpdateOperation(sql) ==
    LET statements == splitSqlStatements(sql)
    IN  \E i \in DOMAIN statements :
            Len(trim(statements[i])) > 0 /\ ~SELECT_PATTERN(statements[i])

\* --------------------------------------------------------- estimated impact

\* String.prototype.toLowerCase, one character
LowerChar(c) ==
    IF c \in Range(UpperLetters)
    THEN LowerLetters[CHOOSE i \in DOMAIN UpperLetters : UpperLetters[i] = c]
    ELSE c

toLowerCase(s) == [i \in DOMAIN s |-> LowerChar(s[i])]

\* the element of a one-element set; binding a value as the element of a
\* one-element set evaluates it once
The(S) == CHOOSE r \in S : TRUE

\* the index just past the maximal run of \w characters that starts at i
WordRunEnd(s, i) ==
    The({ CHOOSE j \in v..(Len(s) + 1) :
              /\ \A k \in v..(j - 1) : IsWordChar(s[k])
              /\ (j = Len(s) + 1 \/ ~IsWordChar(s[j]))
          : v \in {i} })

\* /\bINSERT\s+INTO\b/.test(s)
INSERT_INTO_ANYWHERE(s) ==
    \E i \in DOMAIN s :
        /\ WordBoundary(s, i)
        /\ StartsWithAt(s, i, W_INSERT)
        /\ LET q == SpaceRunEnd(s, i + 6)
           IN  /\ q > i + 6
               /\ StartsWithAt(s, q, W_INTO)
               /\ WordBoundary(s, q + 4)

\* /\bUPDATE\s+\w+\s+SET\b/.test(s)
UPDATE_SET_ANYWHERE(s) ==
    \E i \in DOMAIN s :
        /\ WordBoundary(s, i)
        /\ StartsWithAt(s, i, W_UPDATE)
        /\ LET q == SpaceRunEnd(s, i + 6)
               w == WordRunEnd(s, q)
               r == SpaceRunEnd(s, w)
           IN  /\ q > i + 6
               /\ w > q
               /\ r > w
               /\ StartsWithAt(s, r, W_SET)
               /\ WordBoundary(s, r + 3)

\* /\bDELETE\s+FROM\b/.test(s)
DELETE_FROM_ANYWHERE(s) ==
    \E i \in DOMAIN s :
        /\ WordBoundary(s, i)
        /\ StartsWithAt(s, i, W_DELETE)
        /\ LET q == SpaceRunEnd(s, i + 6)
           IN  /\ q > i + 6
               /\ StartsWithAt(s, q, W_FROM)
               /\ WordBoundary(s, q + 4)

\* getQueryType that tests the three markers in the opposite order
getQueryType_DeleteFirst(sql) ==
    LET normalized == toUpperCase(normalizeSql(sql))
    IN  IF DELETE_FROM_ANYWHERE(normalized) THEN "DELETE"
        ELSE IF UPDATE_SET_ANYWHERE(normalized) THEN "UPDATE"
        ELSE IF INSERT_INTO_ANYWHERE(normalized) THEN "INSERT"
        ELSE "UPDATE"

\* getQueryType: the first of the three markers found anywhere in the
\* normalized upper-case text, UPDATE when there is none
getQueryType(sql) ==
    LET normalized == toUpperCase(normalizeSql(sql))
    IN  IF INSERT_INTO_ANYWHERE(normalized) THEN "INSERT"
        ELSE IF UPDATE_SET_ANYWHERE(normalized) THEN "UPDATE"
        ELSE IF DELETE_FROM_ANYWHERE(normalized) THEN "DELETE"
        ELSE "UPDATE"

\* the backtick character
Backtick == "U+0060"

\* the characters normalizeTableName removes
QuoteChars == {Backtick, "\"", "[", "]"}

\* normalizeTableName that keeps the name as it is written in upper case
normalizeTableName_UpperCase(tableName) ==
    LET cleaned == SelectSeq(tableName, LAMBDA c : c \notin QuoteChars)
        dots == {i \in DOMAIN cleaned : cleaned[i] = "."}
    IN  IF dots = {} THEN cleaned
        ELSE SubSeq(cleaned, (CHOOSE i \in dots : \A k \in dots : i >= k) + 1,
                    Len(cleaned))

\* normalizeTableName: the quote characters removed, the part after the
\* last dot, in lower case
normalizeTableName(tableName) ==
    LET cleaned == SelectSeq(tableName, LAMBDA c : c \notin QuoteChars)
        dots == {i \in DOMAIN cleaned : cleaned[i] = "."}
    IN  toLowerCase(
            IF dots = {} THEN cleaned
            ELSE SubSeq(cleaned, (CHOOSE i \in dots : \A k \in dots : i >= k) + 1,
                        Len(cleaned)))

\* the index just past an optional opening quote, \w+, an optional .\w+ and
\* an optional closing quote matched at p, or p when they do not match there
IdentifierEnd(s, p) ==
    LET closed(e2) ==
            IF e2 <= Len(s) /\ s[e2] \in {Backtick, "\"", "]"} THEN e2 + 1 ELSE e2
        dotted(e1) ==
            The({ closed(e2) :
                  e2 \in { IF /\ e1 + 1 <= Len(s)
                              /\ s[e1] = "."
                              /\ WordRunEnd(s, e1 + 1) > e1 + 1
                           THEN WordRunEnd(s, e1 + 1)
                           ELSE e1 } })
        word(start, a) ==
            IF a > Len(s) THEN start
            ELSE The({ IF e1 = a THEN start ELSE dotted(e1) : e1 \in {WordRunEnd(s, a)} })
        opened(start) ==
            The({ word(start, a) :
                  a \in { IF start <= Len(s) /\ s[start] \in {Backtick, "\"", "["}
                          THEN start + 1 ELSE start } })
    IN  The({ opened(start) : start \in {p} })

\* the index just past keywords k.. of the list, each followed by white
\* space, matched at i of s, or 0 when they do not match there
RECURSIVE AfterKeywords(_, _, _, _)
AfterKeywords(s, keywords, i, k) ==
    IF k > Len(keywords) THEN i
    ELSE IF StartsWithAt(s, i, keywords[k])
               /\ SpaceRunEnd(s, i + Len(keywords[k])) > i + Len(keywords[k])
         THEN AfterKeywords(s, keywords, SpaceRunEnd(s, i + Len(keywords[k])), k + 1)
         ELSE 0

\* the positions at which the keywords, in order and each followed by
\* white space, are followed by an identifier: pairs <<start, identifier>>
KeywordMatches(s, keywords) ==
    {<<i, AfterKeywords(s, keywords, i, 1)>> :
        i \in {x \in DOMAIN s :
                  /\ AfterKeywords(s, keywords, x, 1) # 0
                  /\ IdentifierEnd(s, AfterKeywords(s, keywords, x, 1))
                        > AfterKeywords(s, keywords, x, 1)}}

\* normalized.match(/KEYWORD\s+...identifier/): the identifier of the
\* leftmost match as a one-element sequence, or the empty sequence
matchTable(s, keywords) ==
    LET leftmost(ms) ==
            IF ms = {} THEN <<>>
            ELSE LET m == CHOOSE x \in ms : \A y \in ms : x[1] <= y[1]
                 IN  <<SubSeq(s, m[2], IdentifierEnd(s, m[2]) - 1)>>
    IN  The({ leftmost(ms) : ms \in {KeywordMatches(s, keywords)} })

\* [...new Set(tables)]: the first occurrence of each element, in order
RemoveDuplicates(seq) ==
    LET keep == {i \in DOMAIN seq : \A k \in 1..(i - 1) : seq[k] # seq[i]}
        position(n) == CHOOSE i \in keep : Cardinality({k \in keep : k <= i}) = n
    IN  [n \in 1..Cardinality(keep) |-> seq[position(n)]]

\* extractTableNames: the tables of the first INSERT INTO, UPDATE and
\* DELETE FROM found in the normalized upper-case text
extractTableNames(sql) ==
    LET names(found) ==
            RemoveDuplicates([i \in DOMAIN found |-> normalizeTableName(found[i])])
        tables(normalized) ==
            The({ names(found) :
                  found \in { matchTable(normalized, <<W_INSERT, W_INTO>>)
                              \o matchTable(normalized, <<W_UPDATE>>)
                              \o matchTable(normalized, <<W_DELETE, W_FROM>>) } })
    IN  The({ tables(normalized) : normalized \in {toUpperCase(normalizeSql(sql))} })

\* ----------------------------------------------------------- submissions

\* bounds of the model
MaxRequests == 3

MaxTokens == 2

MaxProbes == 2

\* SELECT 1
Q_Select ==
    <<"S","E","L","E","C","T"," ","1">>

\* INSERT INTO t VALUES ('x')
Q_Insert ==
    <<"I","N","S","E","R","T"," ","I","N","T","O"," ","t"," ","V","A","L",
      "U","E","S"," ","(","'","x","'",")">>

\* update t set a=1; -- c<newline>DELETE FROM t
Q_Multi ==
    <<"u","p","d","a","t","e"," ","t"," ","s","e","t"," ","a","=","1",";",
      " ","-","-"," ","c","\n","D","E","L","E","T","E"," ","F","R","O","M",
      " ","t">>

\* SELECT 1; DROP TABLE t;
Q_Drop ==
    <<"S","E","L","E","C","T"," ","1",";"," ","D","R","O","P"," ","T","A",
      "B","L","E"," ","t",";">>

\* the SQL texts submitted to the gateway in the workflow specification
Submissions == {Q_Select, Q_Insert, Q_Multi, Q_Drop}

\* other leading keywords of the corpus
W_DROP == <<"D","R","O","P">>

W_CREATE == <<"C","R","E","A","T","E">>

W_ALTER == <<"A","L","T","E","R">>

W_TRUNCATE == <<"T","R","U","N","C","A","T","E">>

W_VACUUM == <<"V","A","C","U","U","M">>

\* the corpus of the classification specification: each text with the
\* leading keywords of its SQL statements, in order (statements end at a
\* semicolon that is outside string literals and comments)
Corpus ==
    {
      \* select a<newline>from t
      [text |-> <<"s","e","l","e","c","t"," ","a","\n","f","r","o","m"," ",
                "t">>,
       stmts |-> <<W_SELECT>>],
      \* SELECT 1 /* c */ ; DROP TABLE t;
      [text |-> <<"S","E","L","E","C","T"," ","1"," ","/","*"," ","c"," ","*",
                "/"," ",";"," ","D","R","O","P"," ","T","A","B","L","E"," ",
                "t",";">>,
       stmts |-> <<W_SELECT, W_DROP>>],
      \* /**/CREATE/**/TABLE/**/ t
      [text |-> <<"/","*","*","/","C","R","E","A","T","E","/","*","*","/","T",
                "A","B","L","E","/","*","*","/"," ","t">>,
       stmts |-> <<W_CREATE>>],
      \* SELECT 1 /* -- */; DROP TABLE t
      [text |-> <<"S","E","L","E","C","T"," ","1"," ","/","*"," ","-","-"," ",
                "*","/",";"," ","D","R","O","P"," ","T","A","B","L","E"," ",
                "t">>,
       stmts |-> <<W_SELECT, W_DROP>>],
      \* SELECT 1
      [text |-> <<"S","E","L","E","C","T"," ","1">>,
       stmts |-> <<W_SELECT>>],
      \* select 1; SELECT 2;
      [text |-> <<"s","e","l","e","c","t"," ","1",";"," ","S","E","L","E",
                "C","T"," ","2",";">>,
       stmts |-> <<W_SELECT, W_SELECT>>],
      \* SELECT a<newline>FROM t
      [text |-> <<"S","E","L","E","C","T"," ","a","\n","F","R","O","M"," ",
                "t">>,
       stmts |-> <<W_SELECT>>],
      \* /* c */ SELECT 1 -- d
      [text |-> <<"/","*"," ","c"," ","*","/"," ","S","E","L","E","C","T",
                " ","1"," ","-","-"," ","d">>,
       stmts |-> <<W_SELECT>>],
      \* INSERT INTO t VALUES ('x')
      [text |-> <<"I","N","S","E","R","T"," ","I","N","T","O"," ","t"," ",
                "V","A","L","U","E","S"," ","(","'","x","'",")">>,
       stmts |-> <<W_INSERT>>],
      \* update t set a=1
      [text |-> <<"u","p","d","a","t","e"," ","t"," ","s","e","t"," ","a",
                "=","1">>,
       stmts |-> <<W_UPDATE>>],
      \* DELETE FROM t
      [text |-> <<"D","E","L","E","T","E"," ","F","R","O","M"," ","t">>,
       stmts |-> <<W_DELETE>>],
      \* SELECT 1; DELETE FROM t
      [text |-> <<"S","E","L","E","C","T"," ","1",";"," ","D","E","L","E",
                "T","E"," ","F","R","O","M"," ","t">>,
       stmts |-> <<W_SELECT, W_DELETE>>],
      \* INSERT INTO t VALUES (1); UPDATE t SET a=1;
      [text |-> <<"I","N","S","E","R","T"," ","I","N","T","O"," ","t"," ",
                "V","A","L","U","E","S"," ","(","1",")",";"," ","U","P","D",
                "A","T","E"," ","t"," ","S","E","T"," ","a","=","1",";">>,
       stmts |-> <<W_INSERT, W_UPDATE>>],
      \* DELETE FROM t; SELECT 1
      [text |-> <<"D","E","L","E","T","E"," ","F","R","O","M"," ","t",";",
                " ","S","E","L","E","C","T"," ","1">>,
       stmts |-> <<W_DELETE, W_SELECT>>],
      \* DROP TABLE t
      [text |-> <<"D","R","O","P"," ","T","A","B","L","E"," ","t">>,
       stmts |-> <<W_DROP>>],
      \* CREATE TABLE t (a)
      [text |-> <<"C","R","E","A","T","E"," ","T","A","B","L","E"," ","t",
                " ","(","a",")">>,
       stmts |-> <<W_CREATE>>],
      \* ALTER TABLE t ADD b
      [text |-> <<"A","L","T","E","R"," ","T","A","B","L","E"," ","t"," ",
                "A","D","D"," ","b">>,
       stmts |-> <<W_ALTER>>],
      \* TRUNCATE TABLE t
      [text |-> <<"T","R","U","N","C","A","T","E"," ","T","A","B","L","E",
                " ","t">>,
       stmts |-> <<W_TRUNCATE>>],
      \* drop table t
      [text |-> <<"d","r","o","p"," ","t","a","b","l","e"," ","t">>,
       stmts |-> <<W_DROP>>],
      \* SELECT 1; DROP TABLE t;
      [text |-> <<"S","E","L","E","C","T"," ","1",";"," ","D","R","O","P",
                " ","T","A","B","L","E"," ","t",";">>,
       stmts |-> <<W_SELECT, W_DROP>>],
      \* DROP TABLE t; SELECT 1
      [text |-> <<"D","R","O","P"," ","T","A","B","L","E"," ","t",";"," ",
                "S","E","L","E","C","T"," ","1">>,
       stmts |-> <<W_DROP, W_SELECT>>],
      \* INSERT INTO t VALUES (1); TRUNCATE t; CREATE x
      [text |-> <<"I","N","S","E","R","T"," ","I","N","T","O"," ","t"," ",
                "V","A","L","U","E","S"," ","(","1",")",";"," ","T","R","U",
                "N","C","A","T","E"," ","t",";"," ","C","R","E","A","T","E",
                " ","x">>,
       stmts |-> <<W_INSERT, W_TRUNCATE, W_CREATE>>],
      \* /* c */ CREATE TABLE t
      [text |-> <<"/","*"," ","c"," ","*","/"," ","C","R","E","A","T","E",
                " ","T","A","B","L","E"," ","t">>,
       stmts |-> <<W_CREATE>>],
      \* -- c<newline>ALTER TABLE t
      [text |-> <<"-","-"," ","c","\n","A","L","T","E","R"," ","T","A","B",
                "L","E"," ","t">>,
       stmts |-> <<W_ALTER>>],
      \* UPDATE t
      [text |-> <<"U","P","D","A","T","E"," ","t">>,
       stmts |-> <<W_UPDATE>>],
      \* VACUUM
      [text |-> <<"V","A","C","U","U","M">>,
       stmts |-> <<W_VACUUM>>],
      \* SELECT '--'; DROP TABLE t
      [text |-> <<"S","E","L","E","C","T"," ","'","-","-","'",";"," ","D",
                "R","O","P"," ","T","A","B","L","E"," ","t">>,
       stmts |-> <<W_SELECT, W_DROP>>],
      \* (the empty text)
      [text |-> <<>>,
       stmts |-> <<>>],
      \* ;
      [text |-> <<";">>,
       stmts |-> <<>>] }

CorpusTexts == {c.text : c \in Corpus}

\* ------------------------------------------- statements on separate lines

\* select 1
Q_SelectLower == <<"s","e","l","e","c","t"," ","1">>

\* the statements a text begins with
FirstStatements == {Q_Select, Q_SelectLower, Q_Insert}

\* what stands between the first statement and the one on the next line:
\* line breaks, alone, with blanks, doubled, after a carriage return or
\* after a comment
NewlineGaps ==
    { <<"\n">>,
      <<" ","\n"," ">>,
      <<"\r","\n">>,
      <<"\n","\n">>,
      <<" ","-","-"," ","c","\n">>,
      <<" ","/","*","c","*","/","\n">> }

\* TABLE t
TableT == <<" ","T","A","B","L","E"," ","t">>

\* forbidden statements that begin with an upper-case letter
UpperForbidden ==
    { W_DROP \o TableT,
      <<"D","r","o","p"," ","t","a","b","l","e"," ","t">>,
      W_TRUNCATE \o TableT,
      W_CREATE \o TableT }

\* drop table t
Q_DropLower == <<"d","r","o","p"," ","t","a","b","l","e"," ","t">>

\* a statement, a line break, a forbidden statement in upper case
NewlineTexts ==
    {first \o gap \o second :
        first \in FirstStatements, gap \in NewlineGaps, second \in UpperForbidden}

\* SELECT a FROM<newline>T<newline> and a forbidden statement: the line
\* before the forbidden statement is a single upper-case letter
ThreeLineTexts ==
    {<<"S","E","L","E","C","T"," ","a"," ","F","R","O","M","\n","T","\n">> \o second :
        second \in UpperForbidden}

\* a statement, a line break, a forbidden statement in lower case
LowerCaseTexts == {first \o <<"\n">> \o Q_DropLower : first \in FirstStatements}

\* SELECT * FROM users
Q_SelectUsers ==
    <<"S","E","L","E","C","T"," ","*"," ","F","R","O","M"," ","u","s","e","r","s">>

\* SELECT 1 -- c<newline>DROP TABLE t;
Q_CommentThenDrop ==
    Q_Select \o <<" ","-","-"," ","c","\n">> \o W_DROP \o TableT \o <<";">>

\* a SELECT that ends in a line comment, and DROP TABLE t; on the next line
CommentThenDropTexts ==
    {select \o comment \o <<"\n">> \o W_DROP \o TableT \o <<";">> :
        select \in {Q_Select, Q_SelectUsers},
        comment \in {<<" ","-","-"," ","c">>, <<"-","-","c",";">>, <<" ","-","-">>}}

\* texts with no statement: empty, blank, semicolons only, comments only
EmptyTexts ==
    { <<>>,
      <<" "," "," ","\n","\t"," "," ">>,
      <<";">>,
      <<" ",";"," ",";","\n">>,
      <<"-","-"," ","c">>,
      <<"/","*"," ","c"," ","*","/">>,
      <<"/","*"," ","c"," ","*","/"," ","-","-"," ","d","\n",";">> }

EdgeTexts ==
    NewlineTexts \cup ThreeLineTexts \cup LowerCaseTexts
        \cup CommentThenDropTexts \cup EmptyTexts

\* ------------------------------------------- texts of the impact estimate

\* mutating texts, each with the tables its statements name after INSERT
\* INTO, UPDATE and DELETE FROM, and whether a string literal of it holds
\* one of these keywords
ImpactCorpus ==
    {
      \* INSERT INTO t VALUES ('x')
      [text |-> <<"I","N","S","E","R","T"," ","I","N","T","O"," ","t"," ","V",
                  "A","L","U","E","S"," ","(","'","x","'",")">>,
       tables |-> {<<"t">>},
       literal |-> FALSE],
      \* update t set a=1
      [text |-> <<"u","p","d","a","t","e"," ","t"," ","s","e","t"," ","a","=",
                  "1">>,
       tables |-> {<<"t">>},
       literal |-> FALSE],
      \* DELETE FROM t
      [text |-> <<"D","E","L","E","T","E"," ","F","R","O","M"," ","t">>,
       tables |-> {<<"t">>},
       literal |-> FALSE],
      \* UPDATE "Users" SET active=1 WHERE id=1
      [text |-> <<"U","P","D","A","T","E"," ","\"","U","s","e","r","s","\"",
                  " ","S","E","T"," ","a","c","t","i","v","e","=","1"," ","W",
                  "H","E","R","E"," ","i","d","=","1">>,
       tables |-> {<<"u","s","e","r","s">>},
       literal |-> FALSE],
      \* INSERT INTO `Users` VALUES (1)
      [text |-> <<"I","N","S","E","R","T"," ","I","N","T","O"," ",Backtick,
                  "U","s","e","r","s",Backtick," ","V","A","L","U","E","S",
                  " ","(","1",")">>,
       tables |-> {<<"u","s","e","r","s">>},
       literal |-> FALSE],
      \* DELETE FROM [Users] WHERE id=1
      [text |-> <<"D","E","L","E","T","E"," ","F","R","O","M"," ","[","U","s",
                  "e","r","s","]"," ","W","H","E","R","E"," ","i","d","=","1">>,
       tables |-> {<<"u","s","e","r","s">>},
       literal |-> FALSE],
      \* UPDATE main.users SET a=1
      [text |-> <<"U","P","D","A","T","E"," ","m","a","i","n",".","u","s","e",
                  "r","s"," ","S","E","T"," ","a","=","1">>,
       tables |-> {<<"u","s","e","r","s">>},
       literal |-> FALSE],
      \* DELETE FROM Main.T
      [text |-> <<"D","E","L","E","T","E"," ","F","R","O","M"," ","M","a","i",
                  "n",".","T">>,
       tables |-> {<<"t">>},
       literal |-> FALSE],
      \* INSERT INTO t SELECT a FROM u
      [text |-> <<"I","N","S","E","R","T"," ","I","N","T","O"," ","t"," ","S",
                  "E","L","E","C","T"," ","a"," ","F","R","O","M"," ","u">>,
       tables |-> {<<"t">>},
       literal |-> FALSE],
      \* INSERT INTO t VALUES (1); UPDATE t SET a=1; DELETE FROM t
      [text |-> <<"I","N","S","E","R","T"," ","I","N","T","O"," ","t"," ","V",
                  "A","L","U","E","S"," ","(","1",")",";"," ","U","P","D","A",
                  "T","E"," ","t"," ","S","E","T"," ","a","=","1",";"," ","D",
                  "E","L","E","T","E"," ","F","R","O","M"," ","t">>,
       tables |-> {<<"t">>},
       literal |-> FALSE],
      \* DELETE FROM a; UPDATE b SET x=1
      [text |-> <<"D","E","L","E","T","E"," ","F","R","O","M"," ","a",";"," ",
                  "U","P","D","A","T","E"," ","b"," ","S","E","T"," ","x","=",
                  "1">>,
       tables |-> {<<"a">>, <<"b">>},
       literal |-> FALSE],
      \* SELECT 1; DELETE FROM t
      [text |-> <<"S","E","L","E","C","T"," ","1",";"," ","D","E","L","E","T",
                  "E"," ","F","R","O","M"," ","t">>,
       tables |-> {<<"t">>},
       literal |-> FALSE],
      \* UPDATE "main"."users" SET a=1
      [text |-> <<"U","P","D","A","T","E"," ","\"","m","a","i","n","\"",".",
                  "\"","u","s","e","r","s","\""," ","S","E","T"," ","a","=",
                  "1">>,
       tables |-> {<<"u","s","e","r","s">>},
       literal |-> FALSE],
      \* UPDATE t SET a = 'INSERT INTO x'
      [text |-> <<"U","P","D","A","T","E"," ","t"," ","S","E","T"," ","a"," ",
                  "="," ","'","I","N","S","E","R","T"," ","I","N","T","O"," ",
                  "x","'">>,
       tables |-> {<<"t">>},
       literal |-> TRUE],
      \* DELETE FROM t WHERE a = 'update x set'
      [text |-> <<"D","E","L","E","T","E"," ","F","R","O","M"," ","t"," ","W",
                  "H","E","R","E"," ","a"," ","="," ","'","u","p","d","a","t",
                  "e"," ","x"," ","s","e","t","'">>,
       tables |-> {<<"t">>},
       literal |-> TRUE] }

ImpactTexts == {c.text : c \in ImpactCorpus}

\* ------------------------------------------------------------ token store

\* an environment variable that is not set
Unset == <<>>

\* process.env.SQL_TOKEN_EXPIRATION_MS of the deployment of the workflow
\* specification: not set
SQL_TOKEN_EXPIRATION_MS == Unset

DefaultExpirationMs == 300000

HexDigits == <<"0","1","2","3","4","5","6","7","8","9","a","b","c","d","e","f">>

\* the value of the decimal digits of s from position i on
RECURSIVE digitsValue(_, _, _)
digitsValue(s, i, acc) ==
    IF i > Len(s) \/ s[i] \notin Digits THEN acc
    ELSE digitsValue(s, i + 1,
                     acc * 10 + (CHOOSE d \in 0..9 : HexDigits[d + 1] = s[i]))

\* parseInt(s, 10): leading whitespace, an optional sign, then the longest
\* run of decimal digits; NaN when there is no digit
parseInt(s) ==
    LET nonSpace == {i \in DOMAIN s : ~IsSpace(s[i])}
        start == IF nonSpace = {} THEN Len(s) + 1
                 ELSE CHOOSE i \in nonSpace : \A k \in nonSpace : i <= k
        signed == start <= Len(s) /\ s[start] \in {"+", "-"}
        first == IF signed THEN start + 1 ELSE start
    IN  IF first > Len(s) \/ s[first] \notin Digits
        THEN [isNaN |-> TRUE, value |-> 0]
        ELSE [isNaN |-> FALSE,
              value |-> (IF signed /\ s[start] = "-" THEN -1 ELSE 1)
                            * digitsValue(s, first, 0)]

\* SqlTokenStore.parseEnvInt: an unset or empty value, one that is not a
\* number and a negative one give the default
parseEnvInt(envValue, defaultValue) ==
    IF envValue = Unset THEN defaultValue
    ELSE LET parsed == parseInt(envValue)
         IN  IF parsed.isNaN \/ parsed.value < 0 THEN defaultValue
             ELSE parsed.value

\* this.tokenExpirationMs, assigned once by the constructor
tokenExpirationMs == parseEnvInt(env, DefaultExpirationMs)

\* the instants the clock is observed at: the start, the last instant at
\* which a token stored at the start is live, and the first at which it is not
TimePoints == {0, tokenExpirationMs, tokenExpirationMs + 1}

\* Buffer.toString('hex'): two lower-case hexadecimal digits per byte
toHex(bytes) ==
    [i \in 1..(2 * Len(bytes)) |->
        IF i % 2 = 1 THEN HexDigits[(bytes[(i + 1) \div 2] \div 16) + 1]
                     ELSE HexDigits[(bytes[i \div 2] % 16) + 1]]

\* crypto.randomBytes(n): a sample of the 256^n values it can return
randomBytes(n) == {[i \in 1..n |-> 255 - 16 * k] : k \in 0..(MaxTokens - 1)}

\* the handle setInterval returns to the store's constructor
setInterval == "Timeout"

\* destroy that leaves the timer running
destroy_KeepsTimer == cleanupInterval

\* SqlTokenStore.destroy: cleanupInterval afterwards
destroy ==
    IF cleanupInterval # "null" THEN "null" ELSE cleanupInterval

\* SqlTokenStore.generateToken: the values it can return
generateToken == {toHex(bytes) : bytes \in randomBytes(32)}

\* store binding the normalized text instead of the submitted one
store_Normalized(token, query) ==
    [t \in (DOMAIN tokens) \cup {token} |->
        IF t = token
        THEN [query |-> normalizeSql(query), createdAt |-> now,
              expiresAt |-> now + tokenExpirationMs]
        ELSE tokens[t]]

\* store that keeps one entry per query: an entry bound to the same text
\* is replaced by the new one
store_OnePerQuery(token, query) ==
    [t \in {x \in DOMAIN tokens : tokens[x].query # query} \cup {token} |->
        IF t = token
        THEN [query |-> query, createdAt |-> now,
              expiresAt |-> now + tokenExpirationMs]
        ELSE tokens[t]]

\* store that leaves an entry the token already has as it is
store_KeepsExisting(token, query) ==
    [t \in (DOMAIN tokens) \cup {token} |->
        IF t = token /\ token \notin DOMAIN tokens
        THEN [query |-> query, createdAt |-> now,
              expiresAt |-> now + tokenExpirationMs]
        ELSE tokens[t]]

\* SqlTokenStore.store: the map after tokens.set(token, {...})
store(token, query) ==
    [t \in (DOMAIN tokens) \cup {token} |->
        IF t = token
        THEN [query |-> query, createdAt |-> now,
              expiresAt |-> now + tokenExpirationMs]
        ELSE tokens[t]]

\* cleanupExpired that removes nothing
cleanupExpired_Never == tokens

\* cleanupExpired that also removes the entries expiring at this very instant
cleanupExpired_RemovesAtExpiry ==
    [t \in {x \in DOMAIN tokens : ~(tokens[x].expiresAt <= now)} |-> tokens[t]]

\* SqlTokenStore.cleanupExpired: the map afterwards
cleanupExpired ==
    [t \in {x \in DOMAIN tokens : ~(tokens[x].expiresAt < now)} |-> tokens[t]]

\* getAndInvalidate that returns the query and leaves the entry in the map
getAndInvalidate_KeepsEntry(token) ==
    IF token \notin DOMAIN tokens
    THEN [value |-> Null, tokens |-> tokens]
    ELSE IF tokens[token].expiresAt < now
         THEN [value |-> Null,
               tokens |-> [t \in (DOMAIN tokens) \ {token} |-> tokens[t]]]
         ELSE [value |-> tokens[token].query, tokens |-> tokens]

\* getAndInvalidate without the expiry check
getAndInvalidate_NoExpiryCheck(token) ==
    IF token \notin DOMAIN tokens
    THEN [value |-> Null, tokens |-> tokens]
    ELSE [value |-> tokens[token].query,
          tokens |-> [t \in (DOMAIN tokens) \ {token} |-> tokens[t]]]

\* getAndInvalidate that sweeps the expired entries whenever it returns null
getAndInvalidate_SweepsOnMiss(token) ==
    IF token \notin DOMAIN tokens
    THEN [value |-> Null, tokens |-> cleanupExpired]
    ELSE IF tokens[token].expiresAt < now
         THEN [value |-> Null, tokens |-> cleanupExpired]
         ELSE [value |-> tokens[token].query,
               tokens |-> [t \in (DOMAIN tokens) \ {token} |-> tokens[t]]]

\* SqlTokenStore.getAndInvalidate: the value returned and the map afterwards
getAndInvalidate(token) ==
    IF token \notin DOMAIN tokens
    THEN [value |-> Null, tokens |-> tokens]
    ELSE IF tokens[token].expiresAt < now
         THEN [value |-> Null,
               tokens |-> [t \in (DOMAIN tokens) \ {token} |-> tokens[t]]]
         ELSE [value |-> tokens[token].query,
               tokens |-> [t \in (DOMAIN tokens) \ {token} |-> tokens[t]]]

\* ---------------------------------------------------------------- gateway

\* runSQL's two classifier calls, tabulated once per text
Classification ==
    [sql \in Submissions \cup CorpusTexts \cup EdgeTexts \cup ImpactTexts |->
        [forbiddenOperation |-> getForbiddenOperation(sql),
         needsConfirmation  |-> isUpdateOperation(sql),
         queryType          |-> getQueryType(sql),
         tables             |-> extractTableNames(sql)]]

InvalidToken == "Invalid or expired confirmation token"

NoResponse ==
    [req |-> 0, op |-> "none", channel |-> "none", input |-> <<>>, at |-> 0,
     ret |-> "none", http |-> 0, body |-> [none |-> TRUE]]

DbError == "no such table"

\* ---------------------------------------------------- values of the driver

\* a JavaScript value as the gateway handles it: its typeof, and for a number,
\* a bigint or a string the sign and the decimal digits (or the characters)
JsValue(type, neg, digits) == [type |-> type, neg |-> neg, digits |-> digits]

Undefined == JsValue("undefined", FALSE, <<>>)

\* the digit a decimal character stands for
DigitValue(c) == CHOOSE d \in 0..9 : HexDigits[d + 1] = c

\* a <= b for two magnitudes written in decimal without leading zeros
MagnitudeLeq(a, b) ==
    \/ Len(a) < Len(b)
    \/ /\ Len(a) = Len(b)
       /\ \/ a = b
          \/ \E i \in DOMAIN a :
                /\ \A k \in 1..(i - 1) : a[k] = b[k]
                /\ DigitValue(a[i]) < DigitValue(b[i])

\* Number.MAX_SAFE_INTEGER = 2^53 - 1 = 9007199254740991
MAX_SAFE_INTEGER ==
    JsValue("number", FALSE,
            <<"9","0","0","7","1","9","9","2","5","4","7","4","0","9","9","1">>)

\* the magnitude plus one
RECURSIVE increment(_)
increment(m) ==
    IF m = <<>> THEN <<"1">>
    ELSE IF m[Len(m)] = "9"
         THEN increment(SubSeq(m, 1, Len(m) - 1)) \o <<"0">>
         ELSE SubSeq(m, 1, Len(m) - 1) \o <<HexDigits[DigitValue(m[Len(m)]) + 2]>>

\* the last two decimal digits of a magnitude, as a number
LastTwo(m) ==
    IF Len(m) = 1 THEN DigitValue(m[1])
    ELSE 10 * DigitValue(m[Len(m) - 1]) + DigitValue(m[Len(m)])

\* Number(b) for a bigint b: the same value when the magnitude is at most
\* 2^53 - 1; above it (and below 2^54, the range of the values used here)
\* doubles are 2 apart and the value is rounded to the nearest, ties to the
\* one with an even significand
Number(b) ==
    IF MagnitudeLeq(b.digits, MAX_SAFE_INTEGER.digits) \/ LastTwo(b.digits) % 2 = 0
    THEN JsValue("number", b.neg, b.digits)
    ELSE IF (LastTwo(b.digits) + 99) % 4 = 0
         THEN JsValue("number", b.neg,
                      SubSeq(b.digits, 1, Len(b.digits) - 1)
                          \o <<HexDigits[DigitValue(b.digits[Len(b.digits)])]>>)
         ELSE JsValue("number", b.neg, increment(b.digits))

\* BigInt.prototype.toString: the decimal digits, with a minus sign if negative
toString(b) ==
    JsValue("string", FALSE, (IF b.neg THEN <<"-">> ELSE <<>>) \o b.digits)

\* bigint <= Number.MAX_SAFE_INTEGER (a mixed comparison, exact)
LeqMaxSafe(b) == b.neg \/ MagnitudeLeq(b.digits, MAX_SAFE_INTEGER.digits)

\* safeLastInsertRowid of executeSqlWithToken and of the route
safeLastInsertRowid(lastInsertRowid) ==
    IF lastInsertRowid.type = "bigint"
    THEN IF LeqMaxSafe(lastInsertRowid)
         THEN Number(lastInsertRowid)
         ELSE toString(lastInsertRowid)
    ELSE lastInsertRowid

\* a thrown value: an Error with a message, a string, null or undefined
Thrown(type, message) == [type |-> type, message |-> message]

\* String(value) for a thrown value that is not an Error
String(error) ==
    IF error.type = "string" THEN error.message
    ELSE IF error.type = "null" THEN "null"
    ELSE "undefined"

\* the message property of whatever was thrown, without the instanceof test
errorText_MessageOnly(error) == error.message

\* error instanceof Error ? error.message : String(error)
errorText(error) ==
    IF error.type = "Error" THEN error.message ELSE String(error)

\* what DatabaseManager.execute can do with a call: resolve with a result set
\* or reject with an Error
DbOutcomes ==
    { [ok |-> TRUE,  rows |-> <<"row1">>, columns |-> <<"c">>,
       rowsAffected |-> 1, lastInsertRowid |-> JsValue("number", FALSE, <<"7">>),
       thrown |-> Undefined],
      [ok |-> FALSE, rows |-> <<>>, columns |-> <<>>,
       rowsAffected |-> 0, lastInsertRowid |-> Undefined,
       thrown |-> Thrown("Error", DbError)] }

\* the dbLog entry of a call that has not settled yet
Unsettled ==
    [ok |-> FALSE, rows |-> <<>>, columns |-> <<>>, rowsAffected |-> 0,
     lastInsertRowid |-> Undefined, thrown |-> Undefined]

\* the MCP module has not been loaded
NotLoaded == [loaded |-> FALSE, defined |-> FALSE, value |-> <<>>]

\* no SSE or HTTP request has been handled
NoRequest ==
    [transport |-> "none", authorization |-> <<>>, hasAuthorization |-> FALSE,
     query |-> <<>>, host |-> "none", outcome |-> "none", statusCode |-> 0,
     body |-> <<>>]

\* a database in which neither tracking table has a row
EmptyDatabase == [schema_migrations |-> {}, seed_applications |-> {}]

\* no runMigrations call has been made
NoRun ==
    [pc |-> "idle", migrationsDir |-> <<>>, seedsDir |-> <<>>,
     pendingMigrations |-> <<>>, pendingSeeds |-> <<>>, file |-> 0, statement |-> 0,
     log |-> <<>>, result |-> "none", error |-> 0]

\* the initializationPromise field while it is null
NoPromise == 0

\* the DatabaseManager as its field initializers leave it: no client, not
\* initialized, no initialization promise, not connected, not initializing
DatabaseManager ==
    [client |-> FALSE, isInitialized |-> FALSE, initializationPromise |-> NoPromise,
     isConnected |-> FALSE, isInitializing |-> FALSE]

Init ==
    /\ apiKey = NotLoaded
    /\ mcpLast = NoRequest
    /\ database = EmptyDatabase
    /\ run = NoRun
    /\ seeded = {}
    /\ applied = {}
    /\ manager = DatabaseManager
    /\ promises = <<>>
    /\ calls = <<>>
    /\ clientLog = <<>>
    /\ transactions = <<>>
    /\ cleanupInterval = setInterval
    /\ env = SQL_TOKEN_EXPIRATION_MS
    /\ tokens = <<>>
    /\ now = 0
    /\ nreq = 0
    /\ pending = {}
    /\ dbLog = <<>>
    /\ minted = <<>>
    /\ redeemed = <<>>
    /\ last = NoResponse

\* runSQL with the confirmation check ahead of the forbidden check
runSQLBranch_ConfirmFirst(sql) ==
    IF Classification[sql].needsConfirmation THEN "needsConfirmation"
    ELSE IF Classification[sql].forbiddenOperation # Null THEN "forbidden"
    ELSE "execute"

\* the branch runSQL takes: the forbidden check comes first, then the
\* confirmation check, and only then the database
runSQLBranch(sql) ==
    IF Classification[sql].forbiddenOperation # Null THEN "forbidden"
    ELSE IF Classification[sql].needsConfirmation THEN "needsConfirmation"
    ELSE "execute"

\* runSQL(sql), up to its return or to its await of the database call
runSQL(sql) ==
    LET branch == runSQLBranch(sql)
        req == nreq + 1
    IN  /\ nreq' = req
        /\ \/ /\ branch = "forbidden"
              /\ last' = [req |-> req, op |-> "propose", channel |-> "tool",
                          input |-> sql, at |-> now, ret |-> "forbidden", http |-> 0,
                          body |-> [status |-> "error",
                                    result |-> <<"ERROR: Forbidden SQL operation detected: ",
                                                 Classification[sql].forbiddenOperation>>]]
              /\ UNCHANGED <<tokens, pending, dbLog, minted>>
           \/ /\ branch = "needsConfirmation"
              /\ \E token \in generateToken \ DOMAIN minted :
                  /\ tokens' = store(token, sql)
                  /\ minted' = [t \in (DOMAIN minted) \cup {token} |->
                                   IF t = token
                                   THEN [query |-> sql, at |-> now, req |-> req,
                                         expiresAt |-> tokens'[token].expiresAt]
                                   ELSE minted[t]]
                  /\ last' = [req |-> req, op |-> "propose", channel |-> "tool",
                              input |-> sql, at |-> now, ret |-> "needsConfirmation",
                              http |-> 0,
                              body |-> [status |-> "needsConfirmation",
                                        query |-> sql,
                                        confirmationToken |-> token,
                                        executeEndpoint |-> "/sql/execute",
                                        expiresIn |-> "5 minutes",
                                        estimatedImpact |->
                                            [queryType |-> Classification[sql].queryType,
                                             tables |-> Classification[sql].tables]]]
              /\ UNCHANGED <<pending, dbLog>>
           \/ /\ branch = "execute"
              /\ dbLog' = Append(dbLog, [req |-> req, op |-> "propose", sql |-> sql,
                                         outcome |-> "pending",
                                         settled |-> Unsettled])
              /\ pending' = pending \cup
                    {[req |-> req, op |-> "propose", channel |-> "tool",
                      input |-> sql, at |-> now, query |-> sql]}
              /\ UNCHANGED <<tokens, minted, last>>
        /\ UNCHANGED <<apiKey, mcpLast, database, run, seeded, applied, manager, promises, calls, clientLog, transactions, cleanupInterval, env, now, redeemed>>

\* executeSqlWithToken(token) (channel "tool") and the /sql/execute handler
\* after validation (channel "route"), up to the return or the await
executeSqlWithToken(channel, token) ==
    LET got == getAndInvalidate(token)
        query == got.value
        req == nreq + 1
    IN  /\ nreq' = req
        /\ tokens' = got.tokens
        /\ IF query = Null
           THEN /\ last' = [req |-> req, op |-> "confirm", channel |-> channel,
                            input |-> token, at |-> now, ret |-> "unauthorized",
                            http |-> IF channel = "route" THEN 401 ELSE 0,
                            body |-> [success |-> FALSE, error |-> InvalidToken]]
                /\ UNCHANGED <<pending, dbLog, redeemed>>
           ELSE /\ dbLog' = Append(dbLog, [req |-> req, op |-> "confirm", sql |-> query,
                                           outcome |-> "pending",
                                           settled |-> Unsettled])
                /\ pending' = pending \cup
                      {[req |-> req, op |-> "confirm", channel |-> channel,
                        input |-> token, at |-> now, query |-> query]}
                /\ redeemed' = Append(redeemed, [token |-> token, req |-> req,
                                                 query |-> query, at |-> now])
                /\ UNCHANGED last
        /\ UNCHANGED <<apiKey, mcpLast, database, run, seeded, applied, manager, promises, calls, clientLog, transactions, cleanupInterval, env, now, minted>>

\* the response if a rejected database call of a confirmation reached the
\* outer catch instead of the inner one
responseAfterDb_OuterCatch(p, outcome) ==
    IF p.op = "propose"
    THEN IF outcome.ok /\ outcome.lastInsertRowid.type # "bigint"
         THEN [req |-> p.req, op |-> p.op, channel |-> p.channel, input |-> p.input,
               at |-> p.at, ret |-> "success", http |-> 0,
               body |-> [status |-> "success", rows |-> outcome.rows,
                         columns |-> outcome.columns,
                         rowsAffected |-> outcome.rowsAffected,
                         lastInsertRowid |-> outcome.lastInsertRowid]]
         ELSE [req |-> p.req, op |-> p.op, channel |-> p.channel, input |-> p.input,
               at |-> p.at, ret |-> "caught", http |-> 0,
               body |-> [result |->
                            <<"Error: ",
                              IF outcome.ok
                              THEN "Do not know how to serialize a BigInt"
                              ELSE errorText(outcome.thrown)>>]]
    ELSE IF outcome.ok
         THEN [req |-> p.req, op |-> p.op, channel |-> p.channel, input |-> p.input,
               at |-> p.at, ret |-> "success",
               http |-> IF p.channel = "route" THEN 200 ELSE 0,
               body |-> [success |-> TRUE, query |-> p.query,
                         result |-> [rowsAffected |-> outcome.rowsAffected,
                                     lastInsertRowid |->
                                         safeLastInsertRowid(outcome.lastInsertRowid),
                                     columns |-> outcome.columns,
                                     rows |-> outcome.rows],
                         executedAt |-> now]]
         ELSE [req |-> p.req, op |-> p.op, channel |-> p.channel, input |-> p.input,
               at |-> p.at, ret |-> "executionError",
               http |-> IF p.channel = "route" THEN 500 ELSE 0,
               body |-> [success |-> FALSE,
                         error |-> <<"Request processing failed: ",
                                     errorText(outcome.thrown)>>]]

\* the response built when the awaited database call of request p settles:
\* runSQL's JSON.stringify (which throws a TypeError on a bigint, caught by
\* runSQL's own catch) or the result object of executeSqlWithToken / the route
responseAfterDb(p, outcome) ==
    IF p.op = "propose"
    THEN IF outcome.ok /\ outcome.lastInsertRowid.type # "bigint"
         THEN [req |-> p.req, op |-> p.op, channel |-> p.channel, input |-> p.input,
               at |-> p.at, ret |-> "success", http |-> 0,
               body |-> [status |-> "success", rows |-> outcome.rows,
                         columns |-> outcome.columns,
                         rowsAffected |-> outcome.rowsAffected,
                         lastInsertRowid |-> outcome.lastInsertRowid]]
         ELSE [req |-> p.req, op |-> p.op, channel |-> p.channel, input |-> p.input,
               at |-> p.at, ret |-> "caught", http |-> 0,
               body |-> [result |->
                            <<"Error: ",
                              IF outcome.ok
                              THEN "Do not know how to serialize a BigInt"
                              ELSE errorText(outcome.thrown)>>]]
    ELSE IF outcome.ok
         THEN [req |-> p.req, op |-> p.op, channel |-> p.channel, input |-> p.input,
               at |-> p.at, ret |-> "success",
               http |-> IF p.channel = "route" THEN 200 ELSE 0,
               body |-> [success |-> TRUE, query |-> p.query,
                         result |-> [rowsAffected |-> outcome.rowsAffected,
                                     lastInsertRowid |->
                                         safeLastInsertRowid(outcome.lastInsertRowid),
                                     columns |-> outcome.columns,
                                     rows |-> outcome.rows],
                         executedAt |-> now]]
         ELSE [req |-> p.req, op |-> p.op, channel |-> p.channel, input |-> p.input,
               at |-> p.at, ret |-> "executionError",
               http |-> IF p.channel = "route" THEN 500 ELSE 0,
               body |-> [success |-> FALSE, query |-> p.query,
                         error |-> <<"SQL execution failed: ",
                                     errorText(outcome.thrown)>>]]

\* the awaited database call of the suspended request p settles with outcome
\* and the handler runs to its return
settle(p, outcome) ==
    /\ pending' = pending \ {p}
    /\ dbLog' = [i \in DOMAIN dbLog |->
                    IF dbLog[i].req = p.req
                    THEN [dbLog[i] EXCEPT
                             !.outcome = IF outcome.ok THEN "resolved" ELSE "rejected",
                             !.settled = outcome]
                    ELSE dbLog[i]]
    /\ last' = responseAfterDb(p, outcome)
    /\ UNCHANGED <<apiKey, mcpLast, database, run, seeded, applied, manager, promises, calls, clientLog, transactions, cleanupInterval, env, tokens, now, nreq, minted, redeemed>>

\* the database call of a suspended request resolves or rejects
DbReturn ==
    \E p \in pending, outcome \in DbOutcomes : settle(p, outcome)

\* the setInterval callback of the store's constructor
CleanupTimer ==
    /\ cleanupInterval # "null"
    /\ tokens' = cleanupExpired
    /\ UNCHANGED <<apiKey, mcpLast, database, run, seeded, applied, manager, promises, calls, clientLog, transactions, cleanupInterval, env, now, nreq, pending, dbLog, minted, redeemed, last>>

\* time passes
Tick ==
    \E t \in TimePoints :
        /\ t > now
        /\ now' = t
        /\ UNCHANGED <<apiKey, mcpLast, database, run, seeded, applied, manager, promises, calls, clientLog, transactions, cleanupInterval, env, tokens, nreq, pending, dbLog, minted, redeemed, last>>

\* the agent's run-sql tool is called
Propose ==
    /\ nreq < MaxRequests
    /\ \E sql \in Submissions : runSQL(sql)

\* the sqlExecuteTool or POST /sql/execute is called
ConfirmAndExecute ==
    /\ nreq < MaxRequests
    /\ \E channel \in {"tool", "route"}, token \in generateToken :
           executeSqlWithToken(channel, token)

Next ==
    \/ Propose
    \/ ConfirmAndExecute
    \/ DbReturn
    \/ CleanupTimer
    \/ Tick

Spec == Init /\ [][Next]_vars

\* values of SQL_TOKEN_EXPIRATION_MS a deployment may set: unset (or empty),
\* 120000, 0, -5, abc, 5m
EnvValues ==
    { Unset,
      <<"1","2","0","0","0","0">>,
      <<"0">>,
      <<"-","5">>,
      <<"a","b","c">>,
      <<"5","m">> }

\* the store is constructed with any of these values in the environment
InitEnv ==
    /\ apiKey = NotLoaded
    /\ mcpLast = NoRequest
    /\ database = EmptyDatabase
    /\ run = NoRun
    /\ seeded = {}
    /\ applied = {}
    /\ manager = DatabaseManager
    /\ promises = <<>>
    /\ calls = <<>>
    /\ clientLog = <<>>
    /\ transactions = <<>>
    /\ cleanupInterval = setInterval
    /\ env \in EnvValues
    /\ tokens = <<>>
    /\ now = 0
    /\ nreq = 0
    /\ pending = {}
    /\ dbLog = <<>>
    /\ minted = <<>>
    /\ redeemed = <<>>
    /\ last = NoResponse

\* the workflow under every configuration of the token lifetime
SpecEnv == InitEnv /\ [][Next]_vars

\* the run-sql tool is called with a text of the corpus
ProposeCorpus ==
    /\ nreq < MaxProbes
    /\ \E sql \in CorpusTexts : runSQL(sql)

NextPropose ==
    \/ ProposeCorpus
    \/ DbReturn

\* the classification of single submissions: up to MaxProbes calls of the
\* run-sql tool, each with any text of the corpus
SpecPropose == Init /\ [][NextPropose]_vars

\* the run-sql tool is called with a text whose statements stand on
\* separate lines, or with a text that has no statement
ProposeEdge ==
    /\ nreq < MaxProbes
    /\ \E sql \in EdgeTexts : runSQL(sql)

NextEdge ==
    \/ ProposeEdge
    \/ DbReturn

\* the classification of texts with line breaks between statements and of
\* texts without statements: up to MaxProbes calls of the run-sql tool
SpecEdge == Init /\ [][NextEdge]_vars

\* the run-sql tool is called with a mutating text of the impact corpus
ProposeImpact ==
    /\ nreq < MaxProbes
    /\ \E sql \in ImpactTexts : runSQL(sql)

NextImpact == ProposeImpact

\* the impact estimate of mutating submissions: up to MaxProbes calls of
\* the run-sql tool, each with any text of the impact corpus
SpecImpact == Init /\ [][NextImpact]_vars

\* ------------------------------------------------------- /sql/execute route

\* the request bodies sent to POST /sql/execute: one that is not JSON, and
\* JSON objects whose token is absent, a number, the empty string or a string
RequestBodies ==
    { [json |-> FALSE, token |-> [type |-> "undefined", value |-> <<>>]],
      [json |-> TRUE,  token |-> [type |-> "undefined", value |-> <<>>]],
      [json |-> TRUE,  token |-> [type |-> "number",    value |-> <<"7">>]],
      [json |-> TRUE,  token |-> [type |-> "string",    value |-> <<>>]] }
    \cup { [json |-> TRUE, token |-> [type |-> "string", value |-> t]] :
              t \in generateToken }

\* executeRequestSchema.safeParse with z.string() alone, without .min(1)
safeParse_AnyString(body) ==
    IF body.token.type = "undefined"
    THEN [success |-> FALSE, message |-> "Required"]
    ELSE IF body.token.type # "string"
    THEN [success |-> FALSE, message |-> "Expected string, received number"]
    ELSE [success |-> TRUE, message |-> ""]

\* executeRequestSchema.safeParse(body): z.object({token: z.string().min(1)})
safeParse(body) ==
    IF body.token.type = "undefined"
    THEN [success |-> FALSE, message |-> "Required"]
    ELSE IF body.token.type # "string"
    THEN [success |-> FALSE, message |-> "Expected string, received number"]
    ELSE IF Len(body.token.value) < 1
    THEN [success |-> FALSE, message |-> "String must contain at least 1 character(s)"]
    ELSE [success |-> TRUE, message |-> ""]

\* sqlExecuteRoute.handler, up to its return or to its await of the database
sqlExecuteRoute(body) ==
    IF ~body.json
    THEN /\ nreq' = nreq + 1
         /\ last' = [req |-> nreq + 1, op |-> "confirm", channel |-> "route",
                     input |-> body.token.value, at |-> now,
                     ret |-> "requestError", http |-> 500,
                     body |-> [success |-> FALSE,
                               error |-> <<"Request processing failed: ",
                                           "Unexpected token in JSON">>]]
         /\ UNCHANGED <<apiKey, mcpLast, database, run, seeded, applied, manager, promises, calls, clientLog, transactions, cleanupInterval, env, tokens, now, pending, dbLog, minted, redeemed>>
    ELSE IF ~safeParse(body).success
    THEN /\ nreq' = nreq + 1
         /\ last' = [req |-> nreq + 1, op |-> "confirm", channel |-> "route",
                     input |-> body.token.value, at |-> now,
                     ret |-> "invalidRequest", http |-> 400,
                     body |-> [success |-> FALSE,
                               error |-> <<"Invalid request: ",
                                           safeParse(body).message>>]]
         /\ UNCHANGED <<apiKey, mcpLast, database, run, seeded, applied, manager, promises, calls, clientLog, transactions, cleanupInterval, env, tokens, now, pending, dbLog, minted, redeemed>>
    ELSE executeSqlWithToken("route", body.token.value)

\* POST /sql/execute is called with any body
RouteRequest ==
    /\ nreq < MaxProbes
    /\ \E body \in RequestBodies : sqlExecuteRoute(body)

\* the run-sql tool is called before the route
ProposeSubmission ==
    /\ nreq < MaxProbes
    /\ \E sql \in Submissions : runSQL(sql)

NextRoute ==
    \/ ProposeSubmission
    \/ RouteRequest
    \/ DbReturn
    \/ CleanupTimer
    \/ Tick

\* the route with every kind of request body: up to MaxProbes requests
SpecRoute == Init /\ [][NextRoute]_vars

\* the last instant of the clock
MaxTime == tokenExpirationMs + 1

\* proposals and route requests while the store's timer is running: the
\* clock keeps advancing, and the setInterval callback keeps being called,
\* so a sweep that has something to remove is not postponed forever
SpecLive == Init /\ [][NextRoute]_vars /\ WF_vars(Tick) /\ WF_vars(CleanupTimer)

\* requests of the workflow in which one text is proposed again and again
MaxPairRequests == 4

\* the run-sql tool is called with the same mutating text
ProposeSameText ==
    /\ nreq < MaxPairRequests
    /\ runSQL(Q_Insert)

\* the sqlExecuteTool or POST /sql/execute is called
ConfirmEither ==
    /\ nreq < MaxPairRequests
    /\ \E channel \in {"tool", "route"}, token \in generateToken :
           executeSqlWithToken(channel, token)

NextPair ==
    \/ ProposeSameText
    \/ ConfirmEither
    \/ DbReturn
    \/ CleanupTimer
    \/ Tick

\* one mutating text proposed repeatedly, and the tokens confirmed in any
\* order: up to MaxPairRequests requests
SpecPair == Init /\ [][NextPair]_vars

\* ------------------------------------------------ the token store by itself

\* calls of store and getAndInvalidate made on the store
MaxStoreCalls == 3

\* the instants the clock is observed at when the store is used directly:
\* the start, a later instant at which an entry is stored again, and the
\* instants around the expiry of an entry stored at either
StoreInstants ==
    {0, 1, tokenExpirationMs, tokenExpirationMs + 1, tokenExpirationMs + 2}

\* the queries stored
StoreQueries == {Q_Insert, Q_Multi}

\* tokenStore.store(token, query) is called
StoreCall ==
    /\ nreq < MaxStoreCalls
    /\ \E token \in generateToken, query \in StoreQueries :
          /\ tokens' = store(token, query)
          /\ nreq' = nreq + 1
          /\ minted' = [t \in (DOMAIN minted) \cup {token} |->
                           IF t = token
                           THEN [query |-> query, at |-> now, req |-> nreq',
                                 expiresAt |-> tokens'[token].expiresAt,
                                 replaced |-> IF token \in DOMAIN tokens
                                              THEN tokens[token].query
                                              ELSE Null]
                           ELSE minted[t]]
          /\ last' = [req |-> nreq', op |-> "store", channel |-> "store",
                      input |-> token, at |-> now, ret |-> "undefined",
                      http |-> 0, body |-> [value |-> query]]
    /\ UNCHANGED <<apiKey, mcpLast, database, run, seeded, applied, manager, promises, calls, clientLog, transactions, cleanupInterval, env, now, pending, dbLog, redeemed>>

\* tokenStore.getAndInvalidate(token) is called
GetAndInvalidateCall ==
    /\ nreq < MaxStoreCalls
    /\ \E token \in generateToken :
          LET got == getAndInvalidate(token)
          IN  /\ tokens' = got.tokens
              /\ nreq' = nreq + 1
              /\ redeemed' = IF got.value = Null
                             THEN redeemed
                             ELSE Append(redeemed,
                                         [token |-> token, req |-> nreq',
                                          query |-> got.value, at |-> now])
              /\ last' = [req |-> nreq', op |-> "getAndInvalidate",
                          channel |-> "store", input |-> token, at |-> now,
                          ret |-> IF got.value = Null THEN "null" ELSE "query",
                          http |-> 0, body |-> [value |-> got.value]]
    /\ UNCHANGED <<apiKey, mcpLast, database, run, seeded, applied, manager, promises, calls, clientLog, transactions, cleanupInterval, env, now, pending, dbLog, minted>>

\* tokenStore.destroy() is called
DestroyCall ==
    /\ cleanupInterval' = destroy
    /\ last' = [req |-> nreq, op |-> "destroy", channel |-> "store",
                input |-> <<>>, at |-> now, ret |-> "undefined",
                http |-> 0, body |-> [value |-> Null]]
    /\ UNCHANGED <<apiKey, mcpLast, database, run, seeded, applied, manager, promises, calls, clientLog, transactions, env, tokens, now, nreq, pending, dbLog, minted, redeemed>>

\* time passes between two calls on the store
Advance ==
    \E t \in StoreInstants :
        /\ t > now
        /\ now' = t
        /\ UNCHANGED <<apiKey, mcpLast, database, run, seeded, applied, manager, promises, calls, clientLog, transactions, cleanupInterval, env, tokens, nreq, pending, dbLog, minted, redeemed, last>>

NextStore ==
    \/ StoreCall
    \/ GetAndInvalidateCall
    \/ DestroyCall
    \/ CleanupTimer
    \/ Advance

\* the store used directly: up to MaxStoreCalls calls of store and
\* getAndInvalidate on any token, destroy at any moment, the timer and the
\* clock
SpecStore == Init /\ [][NextStore]_vars

\* --------------------------------------------- every outcome of the driver

\* 2^53 + 1 = 9007199254740993
Above_MAX_SAFE_INTEGER ==
    <<"9","0","0","7","1","9","9","2","5","4","7","4","0","9","9","3">>

\* the lastInsertRowid values of a result set: bigints (7, 2^53 - 1, 2^53 + 1,
\* -(2^53 - 1), -(2^53 + 1)), null and undefined
RowidValues ==
    { JsValue("bigint", FALSE, <<"7">>),
      JsValue("bigint", FALSE, MAX_SAFE_INTEGER.digits),
      JsValue("bigint", FALSE, Above_MAX_SAFE_INTEGER),
      JsValue("bigint", TRUE, MAX_SAFE_INTEGER.digits),
      JsValue("bigint", TRUE, Above_MAX_SAFE_INTEGER),
      JsValue("null", FALSE, <<>>),
      Undefined }

\* the values a rejected call can carry: an Error, a string, null, undefined
Throwables ==
    { Thrown("Error", DbError),
      Thrown("string", "String error"),
      Thrown("null", ""),
      Thrown("undefined", "") }

AllDbOutcomes ==
    { [ok |-> TRUE, rows |-> <<"row1">>, columns |-> <<"c">>, rowsAffected |-> 1,
       lastInsertRowid |-> v, thrown |-> Undefined] : v \in RowidValues }
    \cup
    { [ok |-> FALSE, rows |-> <<>>, columns |-> <<>>, rowsAffected |-> 0,
       lastInsertRowid |-> Undefined, thrown |-> e] : e \in Throwables }

\* the database call of a suspended request settles in any of these ways
DbSettles ==
    \E p \in pending, outcome \in AllDbOutcomes : settle(p, outcome)

\* the sqlExecuteTool is called
ToolRequest ==
    /\ nreq < MaxProbes
    /\ \E token \in generateToken : executeSqlWithToken("tool", token)

NextDb ==
    \/ ProposeSubmission
    \/ ToolRequest
    \/ RouteRequest
    \/ DbSettles

\* the two entry points against a driver that may return or throw anything:
\* up to MaxProbes requests
SpecDb == Init /\ [][NextDb]_vars

\* ------------------------------------------------- database initialization

\* calls made on the manager
MaxCalls == 2

\* the statements performInitialization hands to the client itself
Pragmas ==
    << "PRAGMA journal_mode = WAL;", "PRAGMA synchronous = NORMAL;",
       "PRAGMA cache_size = -64000;", "PRAGMA temp_store = MEMORY;" >>

\* the statement of verifyConnection
VerifyStatement == "SELECT 1"

\* the statements runMigrations issues through database.execute when no
\* migration file is pending and there are no seeds
MigrationStatements ==
    << "CREATE TABLE IF NOT EXISTS schema_migrations",
       "SELECT version FROM schema_migrations ORDER BY version" >>

\* the statements of one initialization, in order
InitializationStatements == Pragmas \o <<VerifyStatement>> \o MigrationStatements

\* statement k is issued by runMigrations, through DatabaseManager.execute
IssuedByMigrations(k) == k > Len(Pragmas) + 1

\* the statement a request passes to execute
RequestSql == "SELECT * FROM users"

\* createClient returns a client or throws
ClientCreations ==
    { [ok |-> TRUE, thrown |-> Undefined],
      [ok |-> FALSE, thrown |-> Thrown("Error", "unable to open database file")] }

\* a statement handed to the client resolves or rejects with any value
StatementOutcomes ==
    { [ok |-> TRUE, thrown |-> Undefined] }
    \cup { [ok |-> FALSE, thrown |-> e] : e \in Throwables }

\* the message of the Error verifyConnection throws for a failed SELECT 1
verifyConnection(error) ==
    <<"Database connection verification failed: ", errorText(error)>>

\* the message of the value thrown at statement k of the initialization
thrownMessage(k, error) ==
    IF InitializationStatements[k] = VerifyStatement
    THEN verifyConnection(error)
    ELSE <<errorText(error)>>

\* the character U+274C (a cross mark) that opens the failure message
CrossMark == "U+274C"

\* the message of the Error performInitialization's catch block throws
initializationFailed(message) ==
    <<CrossMark, " Database initialization failed: ">> \o message

\* an entry of the client's log: who issued the statement (0: the
\* initialization, else the call) and whether the manager was initialized
Issued(by, sql) == [by |-> by, sql |-> sql, isInitialized |-> manager.isInitialized]

\* a promise of performInitialization: its state, the message of its
\* rejection, and the statement the initialization is waiting on
Promise(state, reason, step) == [state |-> state, reason |-> reason, step |-> step]

\* a call on the manager: the method, where it stands, the promise it got
\* from ensureInitialized, whether it started that initialization, and the
\* message it rejected with
Call(op, pc, promise, started, reason) ==
    [op |-> op, pc |-> pc, promise |-> promise, started |-> started, reason |-> reason]

\* the synchronous part of performInitialization, up to its first await:
\* the state of the manager and of the new promise, and the statement issued
performInitialization(creation) ==
    IF ~manager.client /\ ~creation.ok
    THEN [manager |-> [manager EXCEPT !.isInitializing = FALSE,
                                      !.initializationPromise = NoPromise,
                                      !.isConnected = FALSE],
          promise |-> Promise("rejected",
                              initializationFailed(<<errorText(creation.thrown)>>), 0),
          issued  |-> <<>>]
    ELSE [manager |-> [manager EXCEPT !.isInitializing = TRUE, !.client = TRUE],
          promise |-> Promise("pending", <<>>, 1),
          issued  |-> <<Issued(0, InitializationStatements[1])>>]

\* ensureInitialized(): what the call gets, and what it does to the manager
ensureInitialized(creation) ==
    IF manager.isInitialized
    THEN [manager |-> manager, promises |-> promises, issued |-> <<>>,
          promise |-> NoPromise, started |-> FALSE]
    ELSE IF manager.initializationPromise # NoPromise
    THEN [manager |-> manager, promises |-> promises, issued |-> <<>>,
          promise |-> manager.initializationPromise, started |-> FALSE]
    ELSE LET init == performInitialization(creation)
             p    == Len(promises) + 1
         IN  [manager  |-> [init.manager EXCEPT !.initializationPromise = p],
              promises |-> Append(promises, init.promise),
              issued   |-> init.issued,
              promise  |-> p, started |-> TRUE]

\* where a call stands once ensureInitialized has given it promise p of ps
awaited(op, p, ps, started) ==
    IF p = NoPromise \/ ps[p].state = "fulfilled"
    THEN Call(op,
              IF op = "execute" THEN "executing"
              ELSE IF op = "executeTransaction" THEN "transaction"
              ELSE "returned",
              p, started, <<>>)
    ELSE IF ps[p].state = "rejected"
    THEN Call(op, "rejected", p, started, ps[p].reason)
    ELSE Call(op, "awaiting", p, started, <<>>)

\* a caller calls manager.ensureInitialized()
CallEnsureInitialized ==
    /\ Len(calls) < MaxCalls
    /\ \E creation \in ClientCreations :
         LET e == ensureInitialized(creation)
         IN  /\ manager' = e.manager
             /\ promises' = e.promises
             /\ clientLog' = clientLog \o e.issued
             /\ calls' = Append(calls,
                                awaited("ensureInitialized", e.promise, e.promises, e.started))
    /\ UNCHANGED <<apiKey, mcpLast, database, run, seeded, applied, transactions, cleanupInterval, env, tokens, now, nreq, pending, dbLog, minted, redeemed, last>>

\* a caller calls manager.execute(sql)
CallExecute ==
    /\ Len(calls) < MaxCalls
    /\ \E creation \in ClientCreations :
         LET c == Len(calls) + 1
         IN  IF manager.isInitializing
             THEN \* the initialization check is skipped
                  /\ manager' = manager
                  /\ promises' = promises
                  /\ clientLog' = Append(clientLog, Issued(c, RequestSql))
                  /\ calls' = Append(calls, Call("execute", "executing", NoPromise, FALSE, <<>>))
             ELSE LET e    == ensureInitialized(creation)
                      call == awaited("execute", e.promise, e.promises, e.started)
                  IN  /\ manager' = e.manager
                      /\ promises' = e.promises
                      /\ calls' = Append(calls, call)
                      /\ clientLog' =
                            clientLog \o e.issued
                            \o (IF call.pc = "executing"
                                THEN <<[by |-> c, sql |-> RequestSql,
                                        isInitialized |-> e.manager.isInitialized]>>
                                ELSE <<>>)
    /\ UNCHANGED <<apiKey, mcpLast, database, run, seeded, applied, transactions, cleanupInterval, env, tokens, now, nreq, pending, dbLog, minted, redeemed, last>>

\* the statement that opens a transaction
BeginStatement == "BEGIN TRANSACTION"

\* the statements of the execute and executeTransaction calls that were
\* waiting for promise p, as they resume in the order they arrived
RECURSIVE resumed(_, _)
resumed(p, c) ==
    IF c > Len(calls) THEN <<>>
    ELSE (IF calls[c].pc = "awaiting" /\ calls[c].promise = p /\ calls[c].op = "execute"
          THEN <<[by |-> c, sql |-> RequestSql, isInitialized |-> TRUE]>>
          ELSE IF calls[c].pc = "awaiting" /\ calls[c].promise = p
                  /\ calls[c].op = "executeTransaction"
          THEN <<[by |-> c, sql |-> BeginStatement, isInitialized |-> TRUE]>>
          ELSE <<>>) \o resumed(p, c + 1)

\* the calls once promise p has settled as ps[p]
settled(p, ps) ==
    [c \in DOMAIN calls |->
        IF calls[c].pc = "awaiting" /\ calls[c].promise = p
        THEN awaited(calls[c].op, p, ps, calls[c].started)
        ELSE calls[c]]

\* the statement an initialization is waiting on resolves or rejects: the
\* rest of performInitialization up to its next await, or to its end
InitializationStep ==
    \E p \in DOMAIN promises, outcome \in StatementOutcomes :
        /\ promises[p].state = "pending"
        /\ promises[p].step \in DOMAIN InitializationStatements
        /\ LET k == promises[p].step
           IN  IF ~outcome.ok
               THEN LET ps == [promises EXCEPT ![p] =
                                  Promise("rejected",
                                          initializationFailed(thrownMessage(k, outcome.thrown)),
                                          0)]
                    IN  /\ manager' = [manager EXCEPT !.initializationPromise = NoPromise,
                                                      !.isConnected = FALSE,
                                                      !.isInitializing = FALSE]
                        /\ promises' = ps
                        /\ calls' = settled(p, ps)
                        /\ clientLog' = clientLog
               ELSE IF k = Len(InitializationStatements)
               THEN LET ps == [promises EXCEPT ![p] = Promise("fulfilled", <<>>, 0)]
                    IN  /\ manager' = [manager EXCEPT !.isInitialized = TRUE,
                                                      !.isConnected = TRUE,
                                                      !.isInitializing = FALSE]
                        /\ promises' = ps
                        /\ calls' = settled(p, ps)
                        /\ clientLog' = clientLog \o resumed(p, 1)
               ELSE IF IssuedByMigrations(k + 1) /\ ~manager.isInitializing
               THEN \* database.execute awaits ensureInitialized(), which
                    \* returns the promise of this same initialization
                    /\ promises' = [promises EXCEPT ![p].step = 0]
                    /\ UNCHANGED <<manager, calls, clientLog>>
               ELSE /\ promises' = [promises EXCEPT ![p].step = k + 1]
                    /\ clientLog' = Append(clientLog, Issued(0, InitializationStatements[k + 1]))
                    /\ UNCHANGED <<manager, calls>>
    /\ UNCHANGED <<apiKey, mcpLast, database, run, seeded, applied, transactions, cleanupInterval, env, tokens, now, nreq, pending, dbLog, minted, redeemed, last>>

\* the client settles the statement of an execute call: the call returns
\* the result set or rethrows
ExecuteSettles ==
    \E c \in DOMAIN calls, outcome \in StatementOutcomes :
        /\ calls[c].pc = "executing"
        /\ calls' = [calls EXCEPT ![c].pc = IF outcome.ok THEN "returned" ELSE "rejected",
                                  ![c].reason = IF outcome.ok THEN <<>>
                                                ELSE <<errorText(outcome.thrown)>>]
        /\ UNCHANGED <<manager, promises, clientLog>>
        /\ UNCHANGED <<apiKey, mcpLast, database, run, seeded, applied, transactions, cleanupInterval, env, tokens, now, nreq, pending, dbLog, minted, redeemed, last>>

NextInit ==
    \/ CallEnsureInitialized
    \/ CallExecute
    \/ InitializationStep
    \/ ExecuteSettles

\* up to MaxCalls calls on the singleton, in any interleaving with the
\* statements of the initialization
SpecInit == Init /\ [][NextInit]_vars

\* ------------------------------------------------------------- transactions

\* the statements that close a transaction
CommitStatement == "COMMIT"
RollbackStatement == "ROLLBACK"

\* the queries a caller hands to executeTransaction
T_Insert == "INSERT INTO users (name) VALUES ('a')"
T_Update == "UPDATE users SET name = 'b'"

\* the lists of queries a caller passes
TransactionQueries ==
    { <<>>, <<T_Insert, T_Update>> }

\* the statements executeTransaction's try block hands to the client, in order
transactionStatements(queries) ==
    <<BeginStatement>> \o queries \o <<CommitStatement>>

\* a statement a transaction has awaited: whether it resolved, and the value
\* it rejected with
Awaited(sql, outcome) == [sql |-> sql, ok |-> outcome.ok, thrown |-> outcome.thrown]

\* a call of executeTransaction: its queries, the statements it has awaited,
\* the value its try block caught and the value it threw
Transaction(queries) ==
    [queries |-> queries, log |-> <<>>, caught |-> Undefined, error |-> Undefined]

\* calls of executeTransaction made on the manager
MaxTransactions == 1

\* a caller calls manager.executeTransaction(queries): it awaits
\* ensureInitialized() and, once initialized, begins the transaction
CallExecuteTransaction ==
    /\ Len(calls) < MaxTransactions
    /\ \E creation \in ClientCreations, queries \in TransactionQueries :
         LET c    == Len(calls) + 1
             e    == ensureInitialized(creation)
             call == awaited("executeTransaction", e.promise, e.promises, e.started)
         IN  /\ manager' = e.manager
             /\ promises' = e.promises
             /\ calls' = Append(calls, call)
             /\ clientLog' =
                   clientLog \o e.issued
                   \o (IF call.pc = "transaction"
                       THEN <<[by |-> c, sql |-> BeginStatement,
                               isInitialized |-> e.manager.isInitialized]>>
                       ELSE <<>>)
             /\ transactions' =
                   [x \in DOMAIN transactions \cup {c} |->
                       IF x = c THEN Transaction(queries) ELSE transactions[x]]
    /\ UNCHANGED <<apiKey, mcpLast, database, run, seeded, applied, cleanupInterval, env, tokens, now, nreq, pending, dbLog, minted, redeemed, last>>

\* the client settles the statement a transaction is waiting on: the next
\* statement of the try block, the return of the results, or the catch
\* block up to its await of ROLLBACK
TransactionStep ==
    \E c \in DOMAIN calls, outcome \in StatementOutcomes :
        /\ calls[c].op = "executeTransaction"
        /\ calls[c].pc = "transaction"
        /\ LET t          == transactions[c]
               statements == transactionStatements(t.queries)
               k          == Len(t.log) + 1
               log        == Append(t.log, Awaited(statements[k], outcome))
           IN  IF ~outcome.ok
               THEN /\ transactions' = [transactions EXCEPT ![c].log = log,
                                                            ![c].caught = outcome.thrown]
                    /\ calls' = [calls EXCEPT ![c].pc = "rollback"]
                    /\ clientLog' = Append(clientLog, Issued(c, RollbackStatement))
               ELSE IF k = Len(statements)
               THEN /\ transactions' = [transactions EXCEPT ![c].log = log]
                    /\ calls' = [calls EXCEPT ![c].pc = "returned"]
                    /\ clientLog' = clientLog
               ELSE /\ transactions' = [transactions EXCEPT ![c].log = log]
                    /\ calls' = calls
                    /\ clientLog' = Append(clientLog, Issued(c, statements[k + 1]))
        /\ UNCHANGED <<manager, promises>>
        /\ UNCHANGED <<apiKey, mcpLast, database, run, seeded, applied, cleanupInterval, env, tokens, now, nreq, pending, dbLog, minted, redeemed, last>>

\* the value the catch block throws once its ROLLBACK has settled
rethrown_RollbackError(error, rollback) == IF rollback.ok THEN error ELSE rollback.thrown

\* the value the catch block throws once its ROLLBACK has settled
rethrown(error, rollback) == error

\* the client settles the ROLLBACK of a transaction: a rejection is logged
\* and dropped, and the call rejects with the value the try block caught
RollbackSettles ==
    \E c \in DOMAIN calls, outcome \in StatementOutcomes :
        /\ calls[c].op = "executeTransaction"
        /\ calls[c].pc = "rollback"
        /\ LET t     == transactions[c]
               error == rethrown(t.caught, outcome)
           IN  /\ transactions' =
                     [transactions EXCEPT
                        ![c].log = Append(t.log, Awaited(RollbackStatement, outcome)),
                        ![c].error = error]
               /\ calls' = [calls EXCEPT ![c].pc = "rejected",
                                         ![c].reason = <<errorText(error)>>]
        /\ UNCHANGED <<manager, promises, clientLog>>
        /\ UNCHANGED <<apiKey, mcpLast, database, run, seeded, applied, cleanupInterval, env, tokens, now, nreq, pending, dbLog, minted, redeemed, last>>

NextTransaction ==
    \/ CallExecuteTransaction
    \/ InitializationStep
    \/ TransactionStep
    \/ RollbackSettles

\* up to MaxTransactions transactions on the singleton, in any interleaving
\* with each other and with the statements of the initialization
SpecTransaction == Init /\ [][NextTransaction]_vars

\* ------------------------------------------------------ migrations and seeds

\* the variables of the gateway and of the manager
otherVars ==
    <<apiKey, mcpLast, manager, promises, calls, clientLog, transactions, cleanupInterval, env, tokens, now, nreq, pending, dbLog,
      minted, redeemed, last>>

\* the characters of file names, in the order of their UTF-16 code units
CodeUnits ==
    <<".", "0", "1", "2", "3", "4", "5", "6", "7", "8", "9", "_">> \o LowerLetters

\* the position of a character in that order
charCodeAt(c) == CHOOSE i \in DOMAIN CodeUnits : CodeUnits[i] = c

\* a < b as strings: at the first index where they differ a has the smaller
\* code unit, or a is a proper prefix of b
RECURSIVE StringLess(_, _)
StringLess(a, b) ==
    IF b = <<>> THEN FALSE
    ELSE IF a = <<>> THEN TRUE
    ELSE IF a[1] # b[1] THEN charCodeAt(a[1]) < charCodeAt(b[1])
    ELSE StringLess(Tail(a), Tail(b))

\* the array left in the order readdirSync listed it
sort_Unsorted(files) == files

\* Array.prototype.sort() without a comparator: ascending by code units
RECURSIVE sort(_)
sort(files) ==
    IF files = <<>> THEN <<>>
    ELSE LET least == CHOOSE i \in DOMAIN files :
                         \A k \in DOMAIN files : ~StringLess(files[k], files[i])
         IN  <<files[least]>>
             \o sort(SubSeq(files, 1, least - 1) \o SubSeq(files, least + 1, Len(files)))

DotSql == <<".", "s", "q", "l">>

\* file.endsWith('.sql')
endsWith(file, suffix) ==
    Len(file) >= Len(suffix) /\ SubSeq(file, Len(file) - Len(suffix) + 1, Len(file)) = suffix

\* file.replace('.sql', ''): the first occurrence removed
replace(file, pattern) ==
    LET at == {i \in DOMAIN file : StartsWithAt(file, i, pattern)}
    IN  IF at = {} THEN file
        ELSE LET i == CHOOSE x \in at : \A k \in at : x <= k
             IN  SubSeq(file, 1, i - 1) \o SubSeq(file, i + Len(pattern), Len(file))

\* readdirSync(dir).filter(file => file.endsWith('.sql')).sort()
sqlFiles(dir) == sort(SelectSeq(dir, LAMBDA file : endsWith(file, DotSql)))

\* sql.split(';').map(stmt => stmt.trim()).filter(stmt => stmt.length > 0)
statementsOf(sql) ==
    SelectSeq([k \in DOMAIN split(sql, 1) |-> trim(split(sql, 1)[k])],
              LAMBDA stmt : Len(stmt) > 0)

\* the files of the migrations directory
M_1 == <<"1", ".", "s", "q", "l">>

M_2 == <<"2", ".", "s", "q", "l">>

M_10 == <<"1", "0", ".", "s", "q", "l">>

M_Notes == <<"n", ".", "t", "x", "t">>

\* the files of the seeds directory
S_A == <<"a", ".", "s", "q", "l">>

S_B == <<"b", ".", "s", "q", "l">>

\* readFileSync: the text of each file
readFileSync(file) ==
    CASE file = M_1  -> <<"a", ";", " ", "b", ";", "\n">>
      [] file = M_2  -> <<"c">>
      [] file = M_10 -> <<" ", ";", "d", ";", " ">>
      [] file = S_A  -> <<"p", ";", "q">>
      [] file = S_B  -> <<"r", ";">>
      [] OTHER       -> <<>>

\* what readdirSync can return for the migrations directory, in the order
\* the file system lists it; Missing when the directory does not exist
Missing == <<<<"ENOENT">>>>

MigrationDirs ==
    { Missing, <<M_1>>, <<M_2, M_1>>, <<M_2, M_Notes, M_10, M_1>> }

SeedDirs ==
    { Missing, <<S_A>>, <<S_B, S_A>> }

\* getMigrationFiles(): the sorted .sql files, or none when the directory
\* cannot be read
getMigrationFiles(dir) == IF dir = Missing THEN <<>> ELSE sqlFiles(dir)

\* the database settles a statement: it resolves or rejects
Settlements == {TRUE, FALSE}

\* the value a rejected statement throws: an Error naming the statement
FailedAt(r) == Len(r.log) + 1

\* one awaited database.execute of the run, as it settled
Executed(kind, file, statement, ok) ==
    [kind |-> kind, file |-> file, statement |-> statement, ok |-> ok]

\* runMigrations rejects where it should resolve
resolved_Rethrows(r) == [r EXCEPT !.pc = "idle", !.result = "rejected"]

\* runMigrations resolves
resolved(r) == [r EXCEPT !.pc = "idle", !.result = "resolved"]

\* the error of log entry k swallowed: runMigrations resolves
rejected_Swallowed(r, k) == [r EXCEPT !.pc = "idle", !.result = "resolved"]

\* runMigrations rejects with the error thrown at log entry k
rejected(r, k) == [r EXCEPT !.pc = "idle", !.result = "rejected", !.error = k]

\* runSeeds moves to pending seed j: its first statement, its record when
\* the file has no statement, the end of runMigrations after the last seed
nextSeed(r, j) ==
    IF j > Len(r.pendingSeeds) THEN resolved(r)
    ELSE IF statementsOf(readFileSync(r.pendingSeeds[j])) = <<>>
    THEN [r EXCEPT !.pc = "markSeedAsApplied", !.file = j, !.statement = 0]
    ELSE [r EXCEPT !.pc = "seed", !.file = j, !.statement = 1]

\* runSeeds up to its first await: readdirSync throws and the catch block
\* swallows it, or the tracking table is created
runSeeds(r) ==
    IF r.seedsDir = Missing THEN resolved(r)
    ELSE [r EXCEPT !.pc = "createSeedTrackingTable"]

\* the loop of runMigrations moves to pending migration i, or on to runSeeds
nextMigration(r, i) ==
    IF i > Len(r.pendingMigrations) THEN runSeeds(r)
    ELSE IF statementsOf(readFileSync(r.pendingMigrations[i])) = <<>>
    THEN [r EXCEPT !.pc = "recordMigration", !.file = i, !.statement = 0]
    ELSE [r EXCEPT !.pc = "migration", !.file = i, !.statement = 1]

\* r with the settled statement appended to its log
logged(r, kind, file, statement, ok) ==
    [r EXCEPT !.log = Append(r.log, Executed(kind, file, statement, ok))]

\* runMigrations(database) is called: the directories are as the file
\* system has them, and createMigrationTable issues its statement
RunMigrations ==
    /\ run.pc = "idle"
    /\ \E migrationsDir \in MigrationDirs, seedsDir \in SeedDirs :
         run' = [NoRun EXCEPT !.pc = "createMigrationTable",
                              !.migrationsDir = migrationsDir,
                              !.seedsDir = seedsDir]
    /\ seeded' = seeded \cup {e.file : e \in {x \in Range(run.log) : x.kind = "seed"}}
    /\ applied' = applied \cup
          {<<e.file, e.statement>> :
              e \in {x \in Range(run.log) : x.kind = "migration" /\ x.ok}}
    /\ UNCHANGED database
    /\ UNCHANGED otherVars

\* CREATE TABLE IF NOT EXISTS schema_migrations settles
CreateMigrationTableSettles ==
    /\ run.pc = "createMigrationTable"
    /\ \E ok \in Settlements :
         LET r == logged(run, "createMigrationTable", <<>>, <<>>, ok)
         IN  run' = IF ok THEN [r EXCEPT !.pc = "getAppliedMigrations"]
                    ELSE rejected(r, FailedAt(run))
    /\ UNCHANGED <<database, seeded, applied>>
    /\ UNCHANGED otherVars

\* SELECT version FROM schema_migrations settles: the pending migrations
\* are the files whose version is not among the rows
GetAppliedMigrationsSettles ==
    /\ run.pc = "getAppliedMigrations"
    /\ \E ok \in Settlements :
         LET r == logged(run, "getAppliedMigrations", <<>>, <<>>, ok)
             appliedMigrations == database.schema_migrations
             pendingMigrations ==
                 SelectSeq(getMigrationFiles(run.migrationsDir),
                           LAMBDA file : replace(file, DotSql) \notin appliedMigrations)
         IN  run' = IF ok
                    THEN nextMigration([r EXCEPT !.pendingMigrations = pendingMigrations], 1)
                    ELSE rejected(r, FailedAt(run))
    /\ UNCHANGED <<database, seeded, applied>>
    /\ UNCHANGED otherVars

\* a statement of the current migration file settles
MigrationStatementSettles ==
    /\ run.pc = "migration"
    /\ \E ok \in Settlements :
         LET file == run.pendingMigrations[run.file]
             statements == statementsOf(readFileSync(file))
             r == logged(run, "migration", file, statements[run.statement], ok)
         IN  run' = IF ~ok THEN rejected(r, FailedAt(run))
                    ELSE IF run.statement < Len(statements)
                    THEN [r EXCEPT !.statement = run.statement + 1]
                    ELSE [r EXCEPT !.pc = "recordMigration"]
    /\ UNCHANGED <<database, seeded, applied>>
    /\ UNCHANGED otherVars

\* INSERT INTO schema_migrations (version) settles; it cannot succeed when
\* the version is already a row (version is the primary key)
RecordMigrationSettles ==
    /\ run.pc = "recordMigration"
    /\ LET file == run.pendingMigrations[run.file]
           version == replace(file, DotSql)
       IN  \E ok \in Settlements :
             /\ ok => version \notin database.schema_migrations
             /\ LET r == logged(run, "recordMigration", file, version, ok)
                IN  run' = IF ok THEN nextMigration(r, run.file + 1)
                           ELSE rejected(r, FailedAt(run))
             /\ database' = IF ok
                            THEN [database EXCEPT !.schema_migrations = @ \cup {version}]
                            ELSE database
    /\ UNCHANGED <<seeded, applied>>
    /\ UNCHANGED otherVars

\* CREATE TABLE IF NOT EXISTS seed_applications settles; a failure is
\* swallowed by the catch block of runSeeds
CreateSeedTrackingTableSettles ==
    /\ run.pc = "createSeedTrackingTable"
    /\ \E ok \in Settlements :
         LET r == logged(run, "createSeedTrackingTable", <<>>, <<>>, ok)
         IN  run' = IF ok THEN [r EXCEPT !.pc = "getAppliedSeeds"] ELSE resolved(r)
    /\ UNCHANGED <<database, seeded, applied>>
    /\ UNCHANGED otherVars

\* SELECT filename FROM seed_applications settles: the pending seeds are
\* the files that are not among the rows
GetAppliedSeedsSettles ==
    /\ run.pc = "getAppliedSeeds"
    /\ \E ok \in Settlements :
         LET r == logged(run, "getAppliedSeeds", <<>>, <<>>, ok)
             appliedSeeds == database.seed_applications
             pendingSeeds == SelectSeq(sqlFiles(run.seedsDir),
                                       LAMBDA file : file \notin appliedSeeds)
         IN  run' = IF ok THEN nextSeed([r EXCEPT !.pendingSeeds = pendingSeeds], 1)
                    ELSE resolved(r)
    /\ UNCHANGED <<database, seeded, applied>>
    /\ UNCHANGED otherVars

\* a statement of the current seed file settles; a failure is only warned about
SeedStatementSettles ==
    /\ run.pc = "seed"
    /\ \E ok \in Settlements :
         LET file == run.pendingSeeds[run.file]
             statements == statementsOf(readFileSync(file))
             r == logged(run, "seed", file, statements[run.statement], ok)
         IN  run' = IF run.statement < Len(statements)
                    THEN [r EXCEPT !.statement = run.statement + 1]
                    ELSE [r EXCEPT !.pc = "markSeedAsApplied"]
    /\ UNCHANGED <<database, seeded, applied>>
    /\ UNCHANGED otherVars

\* INSERT OR IGNORE INTO seed_applications settles; a failure is swallowed
\* by the catch block of runSeeds, which ends the seeding
MarkSeedAsAppliedSettles ==
    /\ run.pc = "markSeedAsApplied"
    /\ LET file == run.pendingSeeds[run.file]
       IN  \E ok \in Settlements :
             /\ LET r == logged(run, "markSeedAsApplied", file, file, ok)
                IN  run' = IF ok THEN nextSeed(r, run.file + 1) ELSE resolved(r)
             /\ database' = IF ok
                            THEN [database EXCEPT !.seed_applications = @ \cup {file}]
                            ELSE database
    /\ UNCHANGED <<seeded, applied>>
    /\ UNCHANGED otherVars

NextMigrate ==
    \/ RunMigrations
    \/ CreateMigrationTableSettles
    \/ GetAppliedMigrationsSettles
    \/ MigrationStatementSettles
    \/ RecordMigrationSettles
    \/ CreateSeedTrackingTableSettles
    \/ GetAppliedSeedsSettles
    \/ SeedStatementSettles
    \/ MarkSeedAsAppliedSettles

\* runMigrations called again and again on one database, each statement
\* resolving or rejecting
SpecMigrate == Init /\ [][NextMigrate]_vars

\* ------------------------------------------------------- MCP authentication

K_1 == <<"k", "1">>

K_2 == <<"k", "2">>

W_Bearer == <<"B", "e", "a", "r", "e", "r", " ">>

\* process.env.MCP_API_KEY: unset, empty, or a key
ApiKeys ==
    { [loaded |-> TRUE, defined |-> FALSE, value |-> <<>>],
      [loaded |-> TRUE, defined |-> TRUE,  value |-> <<>>],
      [loaded |-> TRUE, defined |-> TRUE,  value |-> K_1] }

\* the Authorization header of a request: absent, or one of these values
AuthorizationHeaders ==
    { W_Bearer \o K_1,
      W_Bearer \o K_2,
      W_Bearer,
      W_Bearer \o <<" ">> \o K_1,
      <<"b", "e", "a", "r", "e", "r", " ">> \o K_1,
      <<"B", "a", "s", "i", "c", " ">> \o K_1,
      K_1 }

\* the query of the request URL: the name/value pairs, decoded, in order
Param(name, value) == [name |-> name, value |-> value]

Queries ==
    { <<>>,
      <<Param("api_key", K_1)>>,
      <<Param("api_key", K_2)>>,
      <<Param("api_key", <<>>)>>,
      <<Param("key", K_1)>>,
      <<Param("api_key", K_2), Param("api_key", K_1)>>,
      <<Param("session", K_2), Param("api_key", K_1)>> }

\* the Host header of a request: a host and port, absent (the base URL is
\* then http://undefined), or a value that is not a host, such as 'a b'
Hosts == {"localhost:4113", "absent", "a b"}

\* new URL(req.url, `http://${req.headers.host}`) throws for a base that
\* is not a URL
URLThrows(host) == host = "a b"

\* url.searchParams.get(name): the first value of that name, or null
searchParamsGet(query, name) ==
    LET at == {i \in DOMAIN query : query[i].name = name}
    IN  IF at = {} THEN [isNull |-> TRUE, value |-> <<>>]
        ELSE [isNull |-> FALSE,
              value |-> query[CHOOSE i \in at : \A k \in at : i <= k].value]

\* authHeader.startsWith('Bearer ')
startsWith(s, prefix) == StartsWithAt(s, 1, prefix)

\* authHeader.substring(7)
substring(s, from) == SubSeq(s, from + 1, Len(s))

\* authenticateRequest(req): true, false, or the exception of new URL
authenticateRequest(req) ==
    IF ~apiKey.defined \/ apiKey.value = <<>> THEN "true"
    ELSE IF req.hasAuthorization /\ req.authorization # <<>>
            /\ startsWith(req.authorization, W_Bearer)
    THEN IF substring(req.authorization, 7) = apiKey.value THEN "true" ELSE "false"
    ELSE IF URLThrows(req.host) THEN "throws"
    ELSE LET apiKeyParam == searchParamsGet(req.query, "api_key")
         IN  IF ~apiKeyParam.isNull /\ apiKeyParam.value # <<>>
             THEN IF apiKeyParam.value = apiKey.value THEN "true" ELSE "false"
             ELSE "false"

Unauthorized == "Unauthorized: Invalid or missing API key"

\* the requests a client can send
Requests ==
    { [transport |-> t, authorization |-> a, hasAuthorization |-> TRUE,
       query |-> q, host |-> h, outcome |-> "none", statusCode |-> 0, body |-> <<>>] :
         t \in {"sse", "http"}, a \in AuthorizationHeaders, q \in Queries, h \in Hosts }
    \cup
    { [transport |-> t, authorization |-> <<>>, hasAuthorization |-> FALSE,
       query |-> q, host |-> h, outcome |-> "none", statusCode |-> 0, body |-> <<>>] :
         t \in {"sse", "http"}, q \in Queries, h \in Hosts }

\* the MCP module is loaded: const apiKey = mcpConfig.apiKey
LoadMcp ==
    /\ ~apiKey.loaded
    /\ apiKey' \in ApiKeys
    /\ UNCHANGED <<mcpLast, database, run, seeded, applied>>
    /\ UNCHANGED <<manager, promises, calls, clientLog, transactions, cleanupInterval, env, tokens, now, nreq, pending,
                   dbLog, minted, redeemed, last>>

\* the request listener of sseServer and of httpServer: 401 when the
\* request is not authenticated, else the request goes to server.startSSE
\* or server.startHTTP; when authenticateRequest throws the listener's
\* promise rejects and the request gets no response
McpRequest ==
    /\ apiKey.loaded
    /\ \E req \in Requests :
         LET authenticated == authenticateRequest(req)
         IN  mcpLast' =
               IF authenticated = "false"
               THEN [req EXCEPT !.outcome = "refused", !.statusCode = 401,
                                !.body = <<"error", Unauthorized>>]
               ELSE IF authenticated = "true"
               THEN [req EXCEPT !.outcome = "served"]
               ELSE [req EXCEPT !.outcome = "threw"]
    /\ UNCHANGED <<apiKey, database, run, seeded, applied>>
    /\ UNCHANGED <<manager, promises, calls, clientLog, transactions, cleanupInterval, env, tokens, now, nreq, pending,
                   dbLog, minted, redeemed, last>>

NextMcp ==
    \/ LoadMcp
    \/ McpRequest

\* the SSE and HTTP listeners under every configuration of the key
SpecMcp == Init /\ [][NextMcp]_vars

\* ------------------------------------------------------------------ claims

\* the database calls made on behalf of request req
DbCallsOf(req) == {k \in DOMAIN dbLog : dbLog[k].req = req}

\* token was redeemed by a request earlier than req
RedeemedBefore(token, req) ==
    \E i \in DOMAIN redeemed : redeemed[i].token = token /\ redeemed[i].req < req

\* the body of the invalid-or-expired failure
Refusal == [success |-> FALSE, error |-> InvalidToken]

\* the gateway's own classifier calls the text forbidden
ClassifiedForbidden(sql) ==
    IF sql \in DOMAIN Classification
    THEN Classification[sql].forbiddenOperation # Null
    ELSE getForbiddenOperation(sql) # Null

\* C1: a token minted by Propose is redeemed at most once: the redemption
\* returns the query it was minted with and deletes the entry, and every
\* later ConfirmAndExecute of the same token gets the invalid-or-expired
\* failure and makes no database call.
C1_TokenRedeemedAtMostOnce ==
    /\ \A i, j \in DOMAIN redeemed :
          redeemed[i].token = redeemed[j].token => i = j
    /\ \A i \in DOMAIN redeemed :
          /\ redeemed[i].token \in DOMAIN minted
          /\ redeemed[i].query = minted[redeemed[i].token].query
          /\ redeemed[i].token \notin DOMAIN tokens
    /\ (last.op = "confirm" /\ RedeemedBefore(last.input, last.req)) =>
          /\ last.ret = "unauthorized"
          /\ last.body = Refusal
          /\ DbCallsOf(last.req) = {}

\* a second ConfirmAndExecute of a redeemed token has been refused
C1_Witness ==
    /\ last.op = "confirm"
    /\ last.ret = "unauthorized"
    /\ RedeemedBefore(last.input, last.req)

\* C2: no text that the gateway's classifier calls forbidden is ever passed
\* to the database, by Propose or by a redemption, and no token is ever
\* bound to such a text.
C2_NoForbiddenTextReachesDatabase ==
    /\ \A k \in DOMAIN dbLog : ~ClassifiedForbidden(dbLog[k].sql)
    /\ \A t \in DOMAIN minted : ~ClassifiedForbidden(minted[t].query)
    /\ \A t \in DOMAIN tokens : ~ClassifiedForbidden(tokens[t].query)

\* a redemption has reached the database and a forbidden text was refused
C2_Witness ==
    /\ \E k \in DOMAIN dbLog : dbLog[k].op = "confirm"
    /\ last.op = "propose"
    /\ last.ret = "forbidden"
    /\ ClassifiedForbidden(last.input)

\* C6: a redemption recovers exactly the text the token was minted with and
\* passes it to the database in exactly one call; a ConfirmAndExecute of a
\* minted, unexpired, not yet redeemed token is never refused; and when the
\* database call succeeds the result is success: true with query = that text.
C6_RoundTrip ==
    /\ \A i \in DOMAIN redeemed :
          /\ redeemed[i].query = minted[redeemed[i].token].query
          /\ Cardinality(DbCallsOf(redeemed[i].req)) = 1
          /\ \A k \in DbCallsOf(redeemed[i].req) :
                /\ dbLog[k].op = "confirm"
                /\ dbLog[k].sql = minted[redeemed[i].token].query
    /\ \A k \in DOMAIN dbLog :
          dbLog[k].op = "confirm" =>
              \E i \in DOMAIN redeemed : redeemed[i].req = dbLog[k].req
    /\ ( /\ last.op = "confirm"
         /\ last.input \in DOMAIN minted
         /\ minted[last.input].req < last.req
         /\ last.at <= minted[last.input].expiresAt
         /\ ~RedeemedBefore(last.input, last.req) ) =>
          /\ last.ret \in {"success", "executionError"}
          /\ (\E k \in DbCallsOf(last.req) : dbLog[k].outcome = "resolved") =>
                /\ last.ret = "success"
                /\ last.body.success = TRUE
                /\ last.body.query = minted[last.input].query

\* the multi-statement text, with its comment and lower-case keywords, has
\* been confirmed and executed successfully
C6_Witness ==
    /\ last.op = "confirm"
    /\ last.ret = "success"
    /\ last.input \in DOMAIN minted
    /\ minted[last.input].query = Q_Multi
    /\ last.body.query = Q_Multi
    /\ \E k \in DbCallsOf(last.req) : dbLog[k].sql = Q_Multi

\* C7: a token is never redeemed after its expiresAt, and a ConfirmAndExecute
\* that arrives after it is refused (401 on the route) without a database
\* call and leaves no entry for the token, whether or not a sweep has run.
C7_ExpiredTokenNotRedeemable ==
    /\ \A i \in DOMAIN redeemed :
          redeemed[i].at <= minted[redeemed[i].token].expiresAt
    /\ ( /\ last.op = "confirm"
         /\ last.input \in DOMAIN minted
         /\ minted[last.input].req < last.req
         /\ last.at > minted[last.input].expiresAt ) =>
          /\ last.ret = "unauthorized"
          /\ last.body = Refusal
          /\ last.channel = "route" => last.http = 401
          /\ DbCallsOf(last.req) = {}
          /\ last.input \notin DOMAIN tokens

\* the route has refused a never redeemed, expired token while another
\* expired entry is still stored (no sweep has run since the expiry)
C7_Witness ==
    /\ last.op = "confirm"
    /\ last.channel = "route"
    /\ last.ret = "unauthorized"
    /\ last.input \in DOMAIN minted
    /\ last.at > minted[last.input].expiresAt
    /\ ~RedeemedBefore(last.input, last.req)
    /\ \E t \in DOMAIN tokens : tokens[t].expiresAt < now

\* a ConfirmAndExecute(channel, token) request is received in this step
ConfirmReceived(channel, token) ==
    /\ nreq' = nreq + 1
    /\ \/ /\ last'.req = nreq'
          /\ last'.op = "confirm"
          /\ last'.channel = channel
          /\ last'.input = token
       \/ \E p \in pending' :
             p.req = nreq' /\ p.op = "confirm" /\ p.channel = channel /\ p.input = token

\* token never existed, has expired or was already redeemed
Unredeemable(token) ==
    \/ token \notin DOMAIN minted
    \/ minted[token].expiresAt < now
    \/ \E i \in DOMAIN redeemed : redeemed[i].token = token

\* C8: a ConfirmAndExecute of a token that never existed, has expired or was
\* already redeemed gets one and the same response in all three cases (the
\* invalid-or-expired failure, 401 on the route), makes no database call and
\* leaves every other stored token unchanged.
C8_UniformRefusal ==
    [][\A channel \in {"tool", "route"}, token \in generateToken :
          (ConfirmReceived(channel, token) /\ Unredeemable(token)) =>
              /\ last'.req = nreq'
              /\ last'.ret = "unauthorized"
              /\ last'.http = (IF channel = "route" THEN 401 ELSE 0)
              /\ last'.body = Refusal
              /\ dbLog' = dbLog
              /\ pending' = pending
              /\ DOMAIN tokens' \subseteq DOMAIN tokens
              /\ \A t \in (DOMAIN tokens) \ {token} :
                    t \in DOMAIN tokens' /\ tokens'[t] = tokens[t]]_vars

\* a token that was never minted has been refused while an expired entry of
\* another token is stored
C8_Witness ==
    /\ last.op = "confirm"
    /\ last.ret = "unauthorized"
    /\ last.input \notin DOMAIN minted
    /\ \E t \in DOMAIN tokens : tokens[t].expiresAt < now

\* C9: when the database rejects the call of a redemption, the response is
\* the failure with the recovered query and the database's message (500 on
\* the route), the token has no entry any more, and a later
\* ConfirmAndExecute of it is refused without a database call.
C9_FailedExecutionConsumesToken ==
    \A i \in DOMAIN redeemed :
        (\E k \in DbCallsOf(redeemed[i].req) : dbLog[k].outcome = "rejected") =>
            /\ redeemed[i].token \notin DOMAIN tokens
            /\ last.req = redeemed[i].req =>
                  /\ last.ret = "executionError"
                  /\ last.body = [success |-> FALSE,
                                  query |-> minted[redeemed[i].token].query,
                                  error |-> <<"SQL execution failed: ", DbError>>]
                  /\ last.channel = "route" => last.http = 500
            /\ ( /\ last.op = "confirm"
                 /\ last.input = redeemed[i].token
                 /\ last.req > redeemed[i].req ) =>
                  /\ last.ret = "unauthorized"
                  /\ last.body = Refusal
                  /\ DbCallsOf(last.req) = {}

\* a token whose execution failed has been presented again and refused
C9_Witness ==
    /\ last.op = "confirm"
    /\ last.ret = "unauthorized"
    /\ \E i \in DOMAIN redeemed :
          /\ redeemed[i].token = last.input
          /\ redeemed[i].req < last.req
          /\ \E k \in DbCallsOf(redeemed[i].req) : dbLog[k].outcome = "rejected"

\* the statements the classifier sees in each text of the corpus
Statements == [sql \in CorpusTexts |-> splitSqlStatements(sql)]

\* the texts of the corpus with no forbidden statement and at least one
\* statement that does not match the SELECT leading pattern
MutatingTexts ==
    {sql \in CorpusTexts :
        /\ \A i \in DOMAIN Statements[sql] : ALLOWED_SQL_PATTERNS(Statements[sql][i])
        /\ \E i \in DOMAIN Statements[sql] : ~SELECT_PATTERN(Statements[sql][i])}

\* a Propose(sql) request is received in this step
ProposeReceived(sql) ==
    /\ nreq' = nreq + 1
    /\ \/ last'.req = nreq' /\ last'.op = "propose" /\ last'.input = sql
       \/ \E p \in pending' : p.req = nreq' /\ p.op = "propose" /\ p.input = sql

\* 64 lower-case hexadecimal characters
IsHex64(token) ==
    /\ Len(token) = 64
    /\ \A i \in DOMAIN token : token[i] \in Range(HexDigits)

SqlStatementsOf ==
    [sql \in CorpusTexts |-> (CHOOSE c \in Corpus : c.text = sql).stmts]

DdlKeywords == {W_CREATE, W_DROP, W_ALTER, W_TRUNCATE}

\* the DDL keywords that lead a statement of the text
DdlKeywordsOf(sql) == Range(SqlStatementsOf[sql]) \cap DdlKeywords

\* C4: for every SQL text in which a statement has CREATE, DROP, ALTER or
\* TRUNCATE as its leading keyword, Propose returns the forbidden error naming
\* such a keyword, makes no database call and mints no token.
C4_DdlIsForbidden ==
    /\ (last.op = "propose" /\ DdlKeywordsOf(last.input) # {}) =>
          /\ last.ret = "forbidden"
          /\ last.body.result[2] \in DdlKeywordsOf(last.input)
          /\ DbCallsOf(last.req) = {}
    /\ \A k \in DOMAIN dbLog : DdlKeywordsOf(dbLog[k].sql) = {}
    /\ \A t \in DOMAIN minted : DdlKeywordsOf(minted[t].query) = {}
    /\ \A t \in DOMAIN tokens : DdlKeywordsOf(tokens[t].query) = {}

\* the texts of the corpus made of one or several SELECT statements
SelectOnlyTexts ==
    {sql \in CorpusTexts :
        /\ Len(SqlStatementsOf[sql]) >= 1
        /\ Range(SqlStatementsOf[sql]) = {W_SELECT}}

\* C5: for every submission composed only of SELECT statements, Propose makes
\* exactly one database call, with the text as it was submitted, returns the
\* rows of the database, and creates no token.
C5_SelectExecutesImmediately ==
    /\ \A p \in pending :
          p.input \in SelectOnlyTexts =>
              /\ Cardinality(DbCallsOf(p.req)) = 1
              /\ \A k \in DbCallsOf(p.req) : dbLog[k].sql = p.input
    /\ (last.op = "propose" /\ last.input \in SelectOnlyTexts) =>
          /\ last.ret \in {"success", "caught"}
          /\ Cardinality(DbCallsOf(last.req)) = 1
          /\ \A k \in DbCallsOf(last.req) :
                /\ dbLog[k].sql = last.input
                /\ dbLog[k].outcome = "resolved" =>
                      last.ret = "success" /\ last.body.rows = <<"row1">>
    /\ \A t \in DOMAIN minted : minted[t].query \notin SelectOnlyTexts

\* the first whitespace-delimited token of a statement
LeadingToken(st) ==
    SubSeq(st, 1, CHOOSE n \in 0..Len(st) :
                      /\ \A i \in 1..n : ~IsSpace(st[i])
                      /\ n < Len(st) => IsSpace(st[n + 1]))

\* for each text of the corpus, the leading token of its first statement, in
\* submission order, that matches none of SELECT / INSERT INTO /
\* UPDATE ... SET / DELETE FROM; Null when every statement matches one
ForbiddenKeyword ==
    [sql \in CorpusTexts |->
        LET st == Statements[sql]
            unmatched == {i \in DOMAIN st :
                             /\ ~SELECT_PATTERN(st[i])
                             /\ ~INSERT_INTO_PATTERN(st[i])
                             /\ ~UPDATE_SET_PATTERN(st[i])
                             /\ ~DELETE_FROM_PATTERN(st[i])}
        IN  IF unmatched = {} THEN Null
            ELSE LeadingToken(st[CHOOSE i \in unmatched : \A k \in unmatched : i <= k])]

\* C10: when a statement of a submission matches none of SELECT / INSERT INTO /
\* UPDATE ... SET / DELETE FROM, Propose returns forbidden with the first
\* whitespace-delimited token of the first such statement, whatever precedes
\* or follows it; nothing is executed and no token is minted.
C10_FirstForbiddenStatementWins ==
    /\ (last.op = "propose" /\ ForbiddenKeyword[last.input] # Null) =>
          /\ last.ret = "forbidden"
          /\ last.body.status = "error"
          /\ last.body.result = <<"ERROR: Forbidden SQL operation detected: ",
                                  ForbiddenKeyword[last.input]>>
          /\ DbCallsOf(last.req) = {}
          /\ \A t \in DOMAIN minted : minted[t].req # last.req
    /\ \A p \in pending : ForbiddenKeyword[p.input] = Null
    /\ \A k \in DOMAIN dbLog : ForbiddenKeyword[dbLog[k].sql] = Null
    /\ \A t \in DOMAIN minted : ForbiddenKeyword[minted[t].query] = Null
    /\ \A t \in DOMAIN tokens : ForbiddenKeyword[tokens[t].query] = Null

\* a submission whose second statement is TRUNCATE and whose third is CREATE,
\* after an INSERT, has been refused with TRUNCATE
C10_Witness ==
    /\ last.op = "propose"
    /\ last.ret = "forbidden"
    /\ Len(Statements[last.input]) = 3
    /\ INSERT_INTO_PATTERN(Statements[last.input][1])
    /\ ~ALLOWED_SQL_PATTERNS(Statements[last.input][2])
    /\ ~ALLOWED_SQL_PATTERNS(Statements[last.input][3])
    /\ last.body.result[2] = W_TRUNCATE
    /\ dbLog = <<>>
    /\ minted = <<>>

\* the text contains a comment marker (-- or /*)
HasComment(sql) ==
    \E i \in DOMAIN sql :
        StartsWithAt(sql, i, <<"-", "-">>) \/ StartsWithAt(sql, i, <<"/", "*">>)

\* the leading keywords of the statements the gateway accepts
AllowedKeywords == {W_SELECT, W_INSERT, W_UPDATE, W_DELETE}

\* the texts of the corpus that have comments (and no string literal, so that
\* every comment marker opens a comment) and a statement that is forbidden
CommentedForbiddenTexts ==
    {sql \in CorpusTexts :
        /\ HasComment(sql)
        /\ \A i \in DOMAIN sql : sql[i] # "'"
        /\ Range(SqlStatementsOf[sql]) \ AllowedKeywords # {}}

\* C11: comments are removed before classification: a submission in which a
\* forbidden statement is preceded by comments, or has comments between its
\* keywords, is answered with the forbidden error and is never passed to the
\* database or bound to a token.
C11_CommentsDoNotHideForbidden ==
    /\ (last.op = "propose" /\ last.input \in CommentedForbiddenTexts) =>
          /\ last.ret = "forbidden"
          /\ DbCallsOf(last.req) = {}
    /\ \A p \in pending : p.input \notin CommentedForbiddenTexts
    /\ \A k \in DOMAIN dbLog : dbLog[k].sql \notin CommentedForbiddenTexts
    /\ \A t \in DOMAIN minted : minted[t].query \notin CommentedForbiddenTexts

\* C12: a sweep removes exactly the entries whose expiresAt is earlier than
\* the current time and leaves every other entry, with its query, createdAt
\* and expiresAt, as it was; nothing else changes.
C12_SweepRemovesExactlyExpired ==
    [][CleanupTimer =>
          /\ DOMAIN tokens' = {t \in DOMAIN tokens : tokens[t].expiresAt >= now}
          /\ \A t \in DOMAIN tokens' : tokens'[t] = tokens[t]
          /\ UNCHANGED <<apiKey, mcpLast, database, run, seeded, applied, manager, promises, calls, clientLog, transactions, cleanupInterval, env, now, nreq, pending, dbLog, minted, redeemed, last>>]_vars

\* two tokens were minted by the only two requests so far; the one that has
\* expired is gone from the store, the live one is still stored as minted
C12_Witness ==
    /\ nreq = 2
    /\ Cardinality(DOMAIN minted) = 2
    /\ Cardinality(DOMAIN tokens) = 1
    /\ \E t \in DOMAIN minted : t \notin DOMAIN tokens /\ minted[t].expiresAt < now
    /\ \A t \in DOMAIN tokens :
          /\ tokens[t].expiresAt >= now
          /\ tokens[t].query = minted[t].query
          /\ tokens[t].expiresAt = minted[t].expiresAt

\* a decimal integer literal: one or more digits and nothing else
IsDecimalInteger(s) == Len(s) > 0 /\ \A i \in DOMAIN s : s[i] \in Digits

\* the lifetime a configuration asks for: the value of SQL_TOKEN_EXPIRATION_MS
\* when it is a non-negative integer, 300000 ms when it is unset or invalid
ConfiguredTtl ==
    IF IsDecimalInteger(env) THEN digitsValue(env, 1, 0) ELSE DefaultExpirationMs

\* C13: store records expiresAt = createdAt + TTL, where TTL is
\* SQL_TOKEN_EXPIRATION_MS, or 300000 ms when that is unset or invalid; a token
\* that was not redeemed earlier is redeemable at every time from createdAt to
\* expiresAt inclusive and at no later time.
C13_TokenLifetime ==
    /\ \A t \in DOMAIN tokens :
          /\ tokens[t].createdAt = minted[t].at
          /\ tokens[t].expiresAt = tokens[t].createdAt + ConfiguredTtl
    /\ \A t \in DOMAIN minted : minted[t].expiresAt = minted[t].at + ConfiguredTtl
    /\ \A i \in DOMAIN redeemed :
          /\ minted[redeemed[i].token].at <= redeemed[i].at
          /\ redeemed[i].at <= minted[redeemed[i].token].at + ConfiguredTtl
    /\ ( /\ last.op = "confirm"
         /\ last.input \in DOMAIN minted
         /\ minted[last.input].req < last.req
         /\ ~RedeemedBefore(last.input, last.req) ) =>
          IF last.at <= minted[last.input].at + ConfiguredTtl
          THEN last.ret # "unauthorized"
          ELSE last.ret = "unauthorized"

\* the JSON bodies whose token is missing, not a string, or the empty string
InvalidBodies ==
    {body \in RequestBodies :
        /\ body.json
        /\ \/ body.token.type # "string"
           \/ body.token.value = <<>>}

\* C14: a confirm request whose token is missing, not a string or the empty
\* string is answered with HTTP 400, success: false and an error beginning
\* 'Invalid request'; the token store and the database are not consulted and
\* no stored token is consumed or changed.
C14_InvalidRequestRejected ==
    [][\A body \in InvalidBodies :
          sqlExecuteRoute(body) =>
              /\ last'.req = nreq'
              /\ last'.http = 400
              /\ last'.body.success = FALSE
              /\ last'.body.error[1] = "Invalid request: "
              /\ tokens' = tokens
              /\ dbLog' = dbLog
              /\ pending' = pending
              /\ redeemed' = redeemed]_vars

\* an empty-string token has been refused with 400 while a minted token is
\* stored untouched
C14_Witness ==
    /\ last.op = "confirm"
    /\ last.channel = "route"
    /\ last.http = 400
    /\ last.body.error[2] = "String must contain at least 1 character(s)"
    /\ DOMAIN tokens # {}
    /\ DOMAIN tokens = DOMAIN minted
    /\ dbLog = <<>>

\* the display text of a thrown value: an Error's message, a string itself,
\* 'null' for null and 'undefined' for undefined
DisplayText(e) ==
    CASE e.type = "Error"     -> e.message
      [] e.type = "string"    -> e.message
      [] e.type = "null"      -> "null"
      [] e.type = "undefined" -> "undefined"

\* C15: whatever the database call of a request throws (an Error, a string,
\* null or undefined), the caller gets a result value carrying the Error's
\* message or String(value): 'Error: ...' from Propose, success: false with
\* 'SQL execution failed: ...' and the query from ConfirmAndExecute; and a
\* read-only Propose that failed has created no token.
C15_FailuresAreReturned ==
    \A k \in DOMAIN dbLog :
        (dbLog[k].outcome = "rejected" /\ last.req = dbLog[k].req) =>
            IF dbLog[k].op = "propose"
            THEN /\ last.ret = "caught"
                 /\ last.body = [result |-> <<"Error: ", DisplayText(dbLog[k].settled.thrown)>>]
                 /\ \A t \in DOMAIN minted : minted[t].req # last.req
                 /\ \A t \in DOMAIN tokens : tokens[t].query # dbLog[k].sql
            ELSE /\ last.ret = "executionError"
                 /\ last.body = [success |-> FALSE, query |-> dbLog[k].sql,
                                 error |-> <<"SQL execution failed: ",
                                             DisplayText(dbLog[k].settled.thrown)>>]
                 /\ last.channel = "route" => last.http = 500

\* the route has answered 500 for a redemption whose database call threw
\* undefined
C15_Witness ==
    /\ last.op = "confirm"
    /\ last.channel = "route"
    /\ last.http = 500
    /\ last.body.error = <<"SQL execution failed: ", "undefined">>
    /\ \E k \in DbCallsOf(last.req) : dbLog[k].settled.thrown.type = "undefined"

\* C16: in the success result of ConfirmAndExecute, a bigint lastInsertRowid
\* within [-(2^53 - 1), 2^53 - 1] is returned as the number of the same value,
\* a bigint outside that range as its decimal string, and a value that is not
\* a bigint unchanged.
C16_SafeLastInsertRowid ==
    \A k \in DOMAIN dbLog :
        ( /\ dbLog[k].op = "confirm"
          /\ dbLog[k].outcome = "resolved"
          /\ last.req = dbLog[k].req ) =>
            LET v == dbLog[k].settled.lastInsertRowid
                returned == last.body.result.lastInsertRowid
            IN  /\ last.ret = "success"
                /\ IF v.type # "bigint"
                   THEN returned = v
                   ELSE IF MagnitudeLeq(v.digits, MAX_SAFE_INTEGER.digits)
                   THEN returned = JsValue("number", v.neg, v.digits)
                   ELSE returned = JsValue("string", FALSE,
                                           (IF v.neg THEN <<"-">> ELSE <<>>) \o v.digits)

\* each text of the corpus with its letters in upper case
UpperCased == [sql \in CorpusTexts |-> toUpperCase(sql)]

\* the proposals whose answer can be read off the state, each with the way it
\* was classified: the latest one if it was refused or needs confirmation,
\* those that minted a token, and those that were passed to the database
ProposalsSeen ==
    (IF last.op = "propose" /\ last.ret \in {"forbidden", "needsConfirmation"}
     THEN {<<last.input, last.ret>>}
     ELSE {})
    \cup {<<minted[t].query, "needsConfirmation">> : t \in DOMAIN minted}
    \cup {<<dbLog[k].sql, "readOnly">> : k \in {i \in DOMAIN dbLog : dbLog[i].op = "propose"}}

\* C17: two submissions that differ only in the case of their letters are
\* classified in the same way (forbidden, needs confirmation or read-only),
\* and the text bound to a token or passed to the database is the submitted
\* text in its original casing.
C17_ClassificationIgnoresCase ==
    /\ \A x, y \in ProposalsSeen :
          UpperCased[x[1]] = UpperCased[y[1]] => x[2] = y[2]
    /\ (last.op = "propose" /\ last.ret = "needsConfirmation") =>
          /\ last.body.query = last.input
          /\ tokens[last.body.confirmationToken].query = last.input
    /\ \A p \in pending : p.query = p.input

\* the initializations that completed successfully
Fulfilled == {p \in DOMAIN promises : promises[p].state = "fulfilled"}

\* the initializations in flight
InFlight == {p \in DOMAIN promises : promises[p].state = "pending"}

\* a call arrives in this step: it is the last of calls'
Arrives == Len(calls') = Len(calls) + 1

\* C19: across sequential and concurrent ensureInitialized()/execute()
\* calls a successful initialization is performed exactly once: never twice,
\* once when the manager is initialized; a call that arrives while an
\* initialization is in flight starts no other and awaits that one; a call
\* that arrives after the successful one starts none and does not wait
C19_InitializedExactlyOnce ==
    [][/\ Cardinality(Fulfilled') <= 1
       /\ manager'.isInitialized => Cardinality(Fulfilled') = 1
       /\ Arrives /\ InFlight # {} =>
            /\ Len(promises') = Len(promises)
            /\ calls'[Len(calls')].pc = "awaiting"
            /\ calls'[Len(calls')].promise \in InFlight
       /\ Arrives /\ manager.isInitialized =>
            /\ Len(promises') = Len(promises)
            /\ calls'[Len(calls')].pc \in {"returned", "executing"}]_vars

\* the initializations that failed
Rejected == {p \in DOMAIN promises : promises[p].state = "rejected"}

\* the values a step of the initialization can throw
InitializationThrowables == Throwables \cup {c.thrown : c \in {x \in ClientCreations : ~x.ok}}

\* 'Database initialization failed: <message>' after the cross mark, with the
\* message of an Error or String(value), as thrown by a step or as wrapped
\* by the connection check
FailureMessages ==
    { <<CrossMark, " Database initialization failed: ", DisplayText(e)>> :
        e \in InitializationThrowables }
    \cup
    { <<CrossMark, " Database initialization failed: ",
        "Database connection verification failed: ", DisplayText(e)>> :
        e \in InitializationThrowables }

\* C20: when a step of the initialization throws, the promise of
\* ensureInitialized rejects with 'Database initialization failed: <message>'
\* and so does every ensureInitialized() call that got it, the manager is
\* left not initialized and not connected, and an ensureInitialized() call
\* made after a failure, with no initialization in flight, starts a fresh one
C20_FailureThenRetry ==
    [][/\ \A p \in Rejected' \ Rejected :
            /\ promises'[p].reason \in FailureMessages
            /\ ~manager'.isInitialized /\ ~manager'.isConnected
            /\ \A c \in DOMAIN calls' :
                 calls'[c].op = "ensureInitialized" /\ calls'[c].promise = p =>
                    calls'[c].pc = "rejected" /\ calls'[c].reason = promises'[p].reason
       /\ ( /\ Arrives
            /\ calls'[Len(calls')].op = "ensureInitialized"
            /\ Rejected # {} /\ InFlight = {} /\ ~manager.isInitialized )
          => /\ Len(promises') = Len(promises) + 1
             /\ calls'[Len(calls')].started]_vars

\* the statements call c handed to the client
IssuedBy(c) == {k \in DOMAIN clientLog : clientLog[k].by = c}

\* C21: the statement of a request's execute(sql) call reaches the client
\* only when the initialization, migrations included, has completed
\* successfully, in every interleaving; and an execute call whose
\* initialization failed rejects without its statement reaching the client
C21_ExecuteAfterInitialization ==
    /\ \A k \in DOMAIN clientLog :
         clientLog[k].by # 0 => clientLog[k].isInitialized /\ Fulfilled # {}
    /\ \A c \in DOMAIN calls :
         ( /\ calls[c].op = "execute"
           /\ calls[c].promise # NoPromise
           /\ promises[calls[c].promise].state = "rejected" )
         => calls[c].pc = "rejected" /\ IssuedBy(c) = {}

\* the migration files in ascending file-name order, with their versions
\* and their statements in file order
MigrationFiles ==
    << [file |-> M_1,  version |-> <<"1">>,      statements |-> << <<"a">>, <<"b">> >>],
       [file |-> M_10, version |-> <<"1", "0">>, statements |-> << <<"d">> >>],
       [file |-> M_2,  version |-> <<"2">>,      statements |-> << <<"c">> >>] >>

\* the place of a migration file in that order
MigrationRank(file) == CHOOSE i \in DOMAIN MigrationFiles : MigrationFiles[i].file = file

\* the entries of the run's log that belong to migration files
MigrationEntries == {k \in DOMAIN run.log : run.log[k].kind \in {"migration", "recordMigration"}}

\* the versions this run has recorded
RecordedByRun ==
    {run.log[k].statement : k \in {x \in DOMAIN run.log :
                                      run.log[x].kind = "recordMigration" /\ run.log[x].ok}}

\* the versions recorded when the run read schema_migrations
RecordedBefore == database.schema_migrations \ RecordedByRun

\* C22: runMigrations executes only the .sql files of the migrations
\* directory whose version (the name without .sql) was not recorded, in
\* ascending file-name order; for each it executes the statements between
\* the semicolons in file order and records the version only after all of
\* them have succeeded; a run that resolves has recorded every such file
C22_PendingMigrationsInOrder ==
    /\ \A k \in MigrationEntries :
         LET e == run.log[k]
             f == MigrationFiles[MigrationRank(e.file)]
         IN  /\ \E i \in DOMAIN run.migrationsDir : run.migrationsDir[i] = e.file
             /\ f.version \notin RecordedBefore
             /\ \A j \in MigrationEntries :
                  j < k => MigrationRank(run.log[j].file) <= MigrationRank(e.file)
             /\ e.kind = "recordMigration" =>
                  /\ e.statement = f.version
                  /\ k > Len(f.statements)
                  /\ \A n \in 1..Len(f.statements) :
                       LET d == run.log[k - Len(f.statements) + n - 1]
                       IN  d.kind = "migration" /\ d.file = e.file /\ d.ok
                           /\ d.statement = f.statements[n]
             /\ e.kind = "migration" =>
                  \E n \in 1..Len(f.statements) :
                     /\ e.statement = f.statements[n]
                     /\ k > n - 1
                     /\ \A m \in 1..(n - 1) :
                          LET d == run.log[k - (n - m)]
                          IN  d.kind = "migration" /\ d.file = e.file /\ d.ok
                              /\ d.statement = f.statements[m]
             /\ e.ok => \A j \in MigrationEntries :
                          j < k /\ run.log[j].file = e.file /\ run.log[j].kind = e.kind
                          => run.log[j].statement # e.statement
    /\ run.pc = "idle" /\ run.result = "resolved" =>
         \A i \in DOMAIN MigrationFiles :
            (\E d \in DOMAIN run.migrationsDir : run.migrationsDir[d] = MigrationFiles[i].file)
            => MigrationFiles[i].version \in database.schema_migrations

\* a run found the directory listed out of order, with a file that is not
\* a migration, executed the three migrations in ascending order and resolved
C22_Witness ==
    /\ run.pc = "idle" /\ run.result = "resolved"
    /\ run.migrationsDir = <<M_2, M_Notes, M_10, M_1>>
    /\ Cardinality(RecordedByRun) = 3
    /\ \E a, b, c \in MigrationEntries :
         /\ a < b /\ b < c
         /\ run.log[a].file = M_1 /\ run.log[b].file = M_10 /\ run.log[c].file = M_2

\* the statements of migration files that failed in this run
FailedMigrationStatements ==
    {k \in DOMAIN run.log : run.log[k].kind = "migration" /\ ~run.log[k].ok}

\* C23: when a statement of a pending migration fails, runMigrations rejects
\* with that error, nothing is executed after it (no later migration, no
\* record, no seed), the version of the failing file is not recorded, and
\* the versions this run recorded before it are still recorded
C23_MigrationFailureStopsRun ==
    \A k \in FailedMigrationStatements :
        /\ k = Len(run.log)
        /\ run.pc = "idle" /\ run.result = "rejected" /\ run.error = k
        /\ MigrationFiles[MigrationRank(run.log[k].file)].version
              \notin database.schema_migrations
        /\ RecordedByRun \subseteq database.schema_migrations

\* the second migration of a run failed after the first was recorded
C23_Witness ==
    /\ FailedMigrationStatements # {}
    /\ RecordedByRun = {<<"1">>}
    /\ run.log[Len(run.log)].file = M_10
    /\ run.seedsDir # Missing

\* the seed files in ascending file-name order, with their statements
SeedFiles ==
    << [file |-> S_A, statements |-> << <<"p">>, <<"q">> >>],
       [file |-> S_B, statements |-> << <<"r">> >>] >>

\* the place of a seed file in that order
SeedRank(file) == CHOOSE i \in DOMAIN SeedFiles : SeedFiles[i].file = file

\* the entries of the run's log that belong to seed files
SeedEntries == {k \in DOMAIN run.log : run.log[k].kind \in {"seed", "markSeedAsApplied"}}

\* the seed files this run has recorded
MarkedByRun ==
    {run.log[k].file : k \in {x \in DOMAIN run.log :
                                 run.log[x].kind = "markSeedAsApplied" /\ run.log[x].ok}}

\* the seed files listed in seed_applications when the run read it
MarkedBefore == database.seed_applications \ MarkedByRun

\* C24: a seed file is applied at most once across runs: a run executes
\* only the seed files that were not listed in seed_applications, in
\* ascending file-name order, records each after executing its statements,
\* and executes no statement of a seed file that an earlier run executed
C24_SeedsAppliedOnce ==
    \A k \in SeedEntries :
        LET e == run.log[k]
            f == SeedFiles[SeedRank(e.file)]
        IN  /\ e.file \notin MarkedBefore
            /\ e.file \notin seeded
            /\ \A j \in SeedEntries :
                 j < k => SeedRank(run.log[j].file) <= SeedRank(e.file)
            /\ e.kind = "markSeedAsApplied" =>
                 /\ k > Len(f.statements)
                 /\ \A n \in 1..Len(f.statements) :
                      LET d == run.log[k - Len(f.statements) + n - 1]
                      IN  d.kind = "seed" /\ d.file = e.file
                          /\ d.statement = f.statements[n]

\* the statements of the seeding phase that failed in this run
FailedSeeding(kinds) ==
    {k \in DOMAIN run.log : run.log[k].kind \in kinds /\ ~run.log[k].ok}

\* C25: failures during seeding never make runMigrations reject: after a
\* failing seed statement the run goes on with the next statement of the
\* file and then with its record in seed_applications, which lists the file
\* once it has succeeded; a failure of the tracking-table creation or of
\* the applied-seeds query ends the seeding with nothing more executed, and
\* runMigrations resolves
C25_SeedFailuresAreSwallowed ==
    /\ (\E k \in DOMAIN run.log :
           run.log[k].kind \in {"createSeedTrackingTable", "getAppliedSeeds",
                                "seed", "markSeedAsApplied"})
       => /\ run.result # "rejected"
          /\ run.pc = "idle" => run.result = "resolved"
    /\ \A k \in FailedSeeding({"seed"}) :
         LET e == run.log[k]
             f == SeedFiles[SeedRank(e.file)]
             final == e.statement = f.statements[Len(f.statements)]
         IN  IF k = Len(run.log)
             THEN /\ run.pc = (IF final THEN "markSeedAsApplied" ELSE "seed")
                  /\ run.pendingSeeds[run.file] = e.file
             ELSE /\ run.log[k + 1].file = e.file
                  /\ run.log[k + 1].kind = (IF final THEN "markSeedAsApplied" ELSE "seed")
                  /\ \A j \in DOMAIN run.log :
                       run.log[j].kind = "markSeedAsApplied" /\ run.log[j].file = e.file
                       /\ run.log[j].ok => e.file \in database.seed_applications
    /\ \A k \in FailedSeeding({"createSeedTrackingTable", "getAppliedSeeds"}) :
         k = Len(run.log) /\ run.pc = "idle" /\ run.result = "resolved"

\* a seed statement failed, its file was recorded all the same, and the run resolved
C25_Witness ==
    /\ run.pc = "idle" /\ run.result = "resolved"
    /\ \E k \in FailedSeeding({"seed"}) :
         run.log[k].file \in MarkedByRun /\ run.log[k].file \in database.seed_applications

\* a key is configured
KeyConfigured == apiKey.loaded /\ apiKey.defined /\ apiKey.value # <<>>

\* the request carries 'Authorization: Bearer ...'
HasBearer(req) ==
    req.hasAuthorization /\ Len(req.authorization) >= 7
    /\ SubSeq(req.authorization, 1, 7) = W_Bearer

\* the request carries the credentials the key asks for: the Bearer header
\* with exactly the key, or no Bearer header and an api_key parameter equal
\* to the key
Credentialed(req) ==
    \/ req.hasAuthorization /\ req.authorization = W_Bearer \o apiKey.value
    \/ /\ ~HasBearer(req)
       /\ \E i \in DOMAIN req.query :
            req.query[i].name = "api_key" /\ req.query[i].value = apiKey.value

\* C26: with a key configured a request reaches the MCP server only if it
\* is credentialed, and every other request is answered 401 'Unauthorized:
\* Invalid or missing API key' and does not reach the server; with no key
\* configured every request reaches the server
C26_OnlyAuthenticatedRequestsServed ==
    mcpLast.outcome # "none" =>
        IF KeyConfigured
        THEN /\ mcpLast.outcome = "served" => Credentialed(mcpLast)
             /\ ~Credentialed(mcpLast) =>
                  /\ mcpLast.outcome = "refused"
                  /\ mcpLast.statusCode = 401
                  /\ mcpLast.body = <<"error", Unauthorized>>
        ELSE mcpLast.outcome = "served"

\* a ConfirmAndExecute of token is suspended at its database call
InFlightFor(token) == \E p \in pending : p.op = "confirm" /\ p.input = token

\* C27: of two concurrent ConfirmAndExecute requests that present the same
\* token, through the tool, the route or one through each, exactly one
\* redeems it and invokes the database: the request that arrives while the
\* other is suspended at its database call gets the invalid-or-expired
\* failure and makes no database call, and the token has one redemption
C27_ConcurrentRedemption ==
    [][\A channel \in {"tool", "route"}, token \in generateToken :
          (ConfirmReceived(channel, token) /\ InFlightFor(token)) =>
              /\ last'.req = nreq'
              /\ last'.ret = "unauthorized"
              /\ last'.body = Refusal
              /\ \A k \in DOMAIN dbLog' : dbLog'[k].req # nreq'
              /\ pending' = pending
              /\ Cardinality({i \in DOMAIN redeemed' : redeemed'[i].token = token}) = 1
              /\ \A p \in pending :
                    p.op = "confirm" /\ p.input = token =>
                       /\ \E i \in DOMAIN redeemed' :
                             redeemed'[i].token = token /\ redeemed'[i].req = p.req
                       /\ Cardinality({k \in DOMAIN dbLog' : dbLog'[k].req = p.req}) = 1]_vars

\* a request through one channel was refused while a request through the
\* other channel, which redeemed the same token, is still at its database call
C27_Witness ==
    /\ last.op = "confirm"
    /\ last.ret = "unauthorized"
    /\ \E p \in pending :
          /\ p.op = "confirm" /\ p.input = last.input
          /\ p.req < last.req
          /\ p.channel # last.channel

\* the database call of request req in the log, as it will be after the step
DbCallAfter(req) == {k \in DOMAIN dbLog' : dbLog'[k].req = req}

\* C28: expiry is checked only at redemption: a ConfirmAndExecute that has
\* redeemed its token stays at its database call, whatever the clock and
\* the sweep do, until the call settles, and then its result is returned
\* (success with the query when the call resolved, the execution failure
\* when it rejected); and a sweep removes no token that has not expired
C28_ExpiryCheckedOnlyAtRedemption ==
    [][/\ \A p \in pending :
            p.op = "confirm" =>
               \/ /\ p \in pending'
                  /\ \A k \in DbCallAfter(p.req) : dbLog'[k] = dbLog[k]
               \/ /\ p \notin pending'
                  /\ last'.req = p.req /\ last'.op = "confirm"
                  /\ \A k \in DbCallAfter(p.req) :
                        /\ dbLog'[k].outcome \in {"resolved", "rejected"}
                        /\ last'.ret = (IF dbLog'[k].outcome = "resolved"
                                        THEN "success" ELSE "executionError")
                  /\ last'.body.query = p.query
       /\ (tokens' # tokens /\ nreq' = nreq) =>
             \A t \in DOMAIN tokens :
                tokens[t].expiresAt >= now => t \in DOMAIN tokens' /\ tokens'[t] = tokens[t]]_vars

\* a redemption returned success at a time after the expiry of its token
C28_Witness ==
    /\ last.op = "confirm"
    /\ last.ret = "success"
    /\ last.input \in DOMAIN minted
    /\ last.at <= minted[last.input].expiresAt
    /\ last.body.executedAt > minted[last.input].expiresAt

\* C29: while the cleanup timer is running every stored token is eventually
\* removed from the store, by a redemption or by a sweep after its
\* expiresAt has passed (for the tokens that expire before the last instant
\* of the clock)
C29_TokensEventuallyRemoved ==
    \A t \in generateToken :
        (t \in DOMAIN tokens /\ tokens[t].expiresAt < MaxTime) ~> (t \notin DOMAIN tokens)

\* a token that no request ever presented is gone after its expiry: only a
\* sweep can have removed it
C29_Witness ==
    /\ nreq = 1
    /\ redeemed = <<>>
    /\ \E t \in DOMAIN minted :
          t \notin DOMAIN tokens /\ minted[t].expiresAt < now

\* the redemptions of token recorded so far
RedemptionsOf(token) == {i \in DOMAIN redeemed : redeemed[i].token = token}

\* C30: tokens are independent. A Propose that needs confirmation adds one
\* entry, under a token never issued before, and leaves every other entry
\* as it was; a ConfirmAndExecute of a token removes that token's entry
\* only, leaves the query and expiry of every other entry as they were, and
\* redeems the token exactly when its own entry is stored and unexpired,
\* whatever the other tokens are and whether they were redeemed; no token
\* is redeemed twice. So one mutating text proposed twice gets two tokens,
\* each redeemable once, in either order
C30_TokensAreIndependent ==
    [][/\ \A sql \in MutatingTexts :
             ProposeReceived(sql) =>
                \E token \in generateToken :
                   /\ token \notin DOMAIN tokens
                   /\ token \notin DOMAIN minted
                   /\ last'.body.confirmationToken = token
                   /\ DOMAIN tokens' = (DOMAIN tokens) \cup {token}
                   /\ tokens'[token].query = sql
                   /\ \A t \in DOMAIN tokens : tokens'[t] = tokens[t]
                   /\ redeemed' = redeemed
       /\ \A channel \in {"tool", "route"}, token \in generateToken :
             ConfirmReceived(channel, token) =>
                /\ DOMAIN tokens' = (DOMAIN tokens) \ {token}
                /\ \A t \in DOMAIN tokens' : tokens'[t] = tokens[t]
                /\ \A t \in generateToken \ {token} :
                      {i \in DOMAIN redeemed' : redeemed'[i].token = t}
                          = RedemptionsOf(t)
                /\ IF token \in DOMAIN tokens /\ ~(tokens[token].expiresAt < now)
                   THEN /\ redeemed' = Append(redeemed,
                                          [token |-> token, req |-> nreq',
                                           query |-> tokens[token].query,
                                           at |-> now])
                        /\ RedemptionsOf(token) = {}
                   ELSE redeemed' = redeemed]_vars

\* one text was proposed twice, and the two tokens were both redeemed, the
\* one issued later first, each bound to the text
C30_Witness ==
    \E t1 \in DOMAIN minted, t2 \in DOMAIN minted :
       /\ t1 # t2
       /\ minted[t1].query = minted[t2].query
       /\ minted[t1].req < minted[t2].req
       /\ \E i \in RedemptionsOf(t1), j \in RedemptionsOf(t2) :
             /\ j < i
             /\ redeemed[i].query = minted[t1].query
             /\ redeemed[j].query = minted[t2].query
       /\ tokens = <<>>

\* the same two tokens redeemed in the order of their issue, the second
\* while the first one's database call is still pending
C30_WitnessInOrder ==
    \E t1 \in DOMAIN minted, t2 \in DOMAIN minted :
       /\ minted[t1].query = minted[t2].query
       /\ minted[t1].req < minted[t2].req
       /\ \E i \in RedemptionsOf(t1), j \in RedemptionsOf(t2) : i < j
       /\ InFlightFor(t1)
       /\ InFlightFor(t2)

\* store(token, query) is called in this step
StoreReceived(token, query) ==
    /\ nreq' = nreq + 1
    /\ last'.req = nreq'
    /\ last'.op = "store"
    /\ last'.input = token
    /\ last'.body.value = query

\* getAndInvalidate(token) is called in this step
GetAndInvalidateReceived(token) ==
    /\ nreq' = nreq + 1
    /\ last'.req = nreq'
    /\ last'.op = "getAndInvalidate"
    /\ last'.input = token

\* token was redeemed after the latest store of it
RedeemedSinceStored(token) ==
    \E i \in DOMAIN redeemed :
       redeemed[i].token = token /\ redeemed[i].req > minted[token].req

\* C31: store(token, q2) on a token that already has an entry replaces the
\* stored query with q2 and restarts createdAt and expiresAt from the
\* current time, leaving the other entries alone; the next
\* getAndInvalidate(token) returns the query stored last (when that entry
\* has not expired, counted from the last store, and was not redeemed
\* since) or null, never the query stored earlier, and removes the entry
C31_StoreOverwrites ==
    [][/\ \A token \in generateToken, q2 \in StoreQueries :
             (StoreReceived(token, q2) /\ token \in DOMAIN tokens) =>
                /\ DOMAIN tokens' = DOMAIN tokens
                /\ tokens'[token] = [query |-> q2, createdAt |-> now,
                                     expiresAt |-> now + tokenExpirationMs]
                /\ \A t \in (DOMAIN tokens) \ {token} : tokens'[t] = tokens[t]
       /\ \A token \in DOMAIN minted :
             GetAndInvalidateReceived(token) =>
                /\ token \notin DOMAIN tokens'
                /\ IF /\ ~(minted[token].at + tokenExpirationMs < now)
                      /\ ~RedeemedSinceStored(token)
                   THEN last'.body.value = minted[token].query
                   ELSE last'.body.value = Null]_vars

\* a token stored with one query at the start and again, later, with another
\* query was redeemed at an instant at which the first entry would have
\* expired: the second query was returned and the entry is gone
C31_Witness ==
    /\ last.op = "getAndInvalidate"
    /\ last.input \in DOMAIN minted
    /\ minted[last.input].replaced # Null
    /\ minted[last.input].replaced # minted[last.input].query
    /\ minted[last.input].at > 0
    /\ last.at > tokenExpirationMs
    /\ last.body.value = minted[last.input].query
    /\ last.input \notin DOMAIN tokens

\* destroy() is called in this step
DestroyReceived ==
    /\ last'.op = "destroy"
    /\ nreq' = nreq
    /\ now' = now
    /\ tokens' = tokens

\* C32: destroy() cancels the timer, on the first call and on every later
\* one, and touches nothing else; once cancelled the timer stays cancelled
\* and never fires, so the map changes only by a call of store or
\* getAndInvalidate; and these keep working: store adds the entry stamped
\* with the current time, getAndInvalidate returns the stored query once,
\* provided the entry has not expired at the lookup, and null otherwise
C32_DestroyStopsTimer ==
    [][/\ DestroyReceived => cleanupInterval' = "null"
       /\ cleanupInterval = "null" =>
             /\ cleanupInterval' = "null"
             /\ (nreq' = nreq => tokens' = tokens)
             /\ \A token \in generateToken, query \in StoreQueries :
                   StoreReceived(token, query) =>
                      /\ DOMAIN tokens' = (DOMAIN tokens) \cup {token}
                      /\ tokens'[token] =
                            [query |-> query, createdAt |-> now,
                             expiresAt |-> now + tokenExpirationMs]
             /\ \A token \in generateToken :
                   GetAndInvalidateReceived(token) =>
                      /\ token \notin DOMAIN tokens'
                      /\ IF /\ token \in DOMAIN minted
                            /\ ~(minted[token].expiresAt < now)
                            /\ ~RedeemedSinceStored(token)
                         THEN last'.body.value = minted[token].query
                         ELSE last'.body.value = Null]_vars

\* the timer is cancelled, an expired entry is still in the map, and the
\* lookup of another expired token has just returned null
C32_Witness ==
    /\ cleanupInterval = "null"
    /\ last.op = "getAndInvalidate"
    /\ last.ret = "null"
    /\ last.input \in DOMAIN minted
    /\ minted[last.input].expiresAt < last.at
    /\ ~RedeemedSinceStored(last.input)
    /\ \E t \in DOMAIN tokens : tokens[t].expiresAt < now

\* the timer is cancelled and a token stored after that was returned by its
\* first lookup and refused by its second
C32_WitnessSingleUse ==
    /\ cleanupInterval = "null"
    /\ last.op = "getAndInvalidate"
    /\ last.ret = "null"
    /\ last.input \in DOMAIN minted
    /\ ~(minted[last.input].expiresAt < last.at)
    /\ RedeemedSinceStored(last.input)

\* the statements of each text of the line-break specification
EdgeStatements == [sql \in EdgeTexts |-> splitSqlStatements(sql)]

\* the texts in which a forbidden statement starts with an upper-case letter
\* on a new line, right after a character that is neither white space nor a
\* semicolon (comments aside), each with that statement
BrokenLines ==
    {[text |-> first \o gap \o second, second |-> second] :
        first \in FirstStatements, gap \in NewlineGaps, second \in UpperForbidden}
    \cup
    {[text |-> <<"S","E","L","E","C","T"," ","a"," ","F","R","O","M","\n","T","\n">>
                   \o second,
      second |-> second] : second \in UpperForbidden}

\* C33: when a character that is neither white space nor a semicolon is
\* followed by a line break and then an upper-case letter, the normalizer
\* puts a statement separator there: a forbidden statement that begins on
\* a new line after another statement, without a semicolon between them, is
\* a statement of its own in the classification, and the submission is
\* refused as forbidden, with no token stored and no database call
C33_NewlineSeparatesStatements ==
    [][\A b \in BrokenLines :
          ProposeReceived(b.text) =>
              /\ \E i \in DOMAIN EdgeStatements[b.text] :
                    EdgeStatements[b.text][i] = toUpperCase(b.second)
              /\ last'.req = nreq'
              /\ last'.ret = "forbidden"
              /\ tokens' = tokens
              /\ dbLog' = dbLog]_vars

\* the call made to the database for request req, as the log will hold it
\* after the step
DbCallWith(req, sql) ==
    \E k \in DOMAIN dbLog' : dbLog'[k].req = req /\ dbLog'[k].sql = sql

C35_EmptyTextGoesToDatabase ==
    [][/\ \A sql \in EmptyTexts :
             ProposeReceived(sql) =>
                /\ EdgeStatements[sql] = <<>>
                /\ Classification[sql].forbiddenOperation = Null
                /\ ~Classification[sql].needsConfirmation
                /\ tokens' = tokens
                /\ minted' = minted
                /\ dbLog' = Append(dbLog, [req |-> nreq', op |-> "propose",
                                           sql |-> sql, outcome |-> "pending",
                                           settled |-> Unsettled])
       /\ nreq' = nreq => /\ Len(dbLog') = Len(dbLog)
                          /\ \A k \in DOMAIN dbLog :
                                /\ dbLog'[k].req = dbLog[k].req
                                /\ dbLog'[k].sql = dbLog[k].sql]_vars

\* a text of blanks, a tab and a line break was submitted, reached the
\* database once as it was, and its rows were returned
C35_Witness ==
    /\ last.op = "propose"
    /\ last.input = <<" "," "," ","\n","\t"," "," ">>
    /\ last.ret = "success"
    /\ tokens = <<>>
    /\ Cardinality({k \in DOMAIN dbLog : dbLog[k].req = last.req}) = 1
    /\ \E k \in DOMAIN dbLog : dbLog[k].req = last.req /\ dbLog[k].sql = last.input

\* the statements of each text of the impact corpus
ImpactStatements == [sql \in ImpactTexts |-> splitSqlStatements(sql)]

\* some statement of sql has the leading clause the pattern describes
LeadingClause(sql, pattern(_)) ==
    \E i \in DOMAIN ImpactStatements[sql] : pattern(ImpactStatements[sql][i])

\* the query type by the leading clauses of the statements, INSERT INTO
\* before UPDATE ... SET before DELETE FROM, UPDATE when there is none
LeadingQueryType(sql) ==
    IF LeadingClause(sql, INSERT_INTO_PATTERN) THEN "INSERT"
    ELSE IF LeadingClause(sql, UPDATE_SET_PATTERN) THEN "UPDATE"
    ELSE IF LeadingClause(sql, DELETE_FROM_PATTERN) THEN "DELETE"
    ELSE "UPDATE"

\* C36: estimatedImpact.queryType is decided by the leading clauses of the
\* mutating text, INSERT INTO before UPDATE <table> SET before DELETE FROM,
\* and is UPDATE when none is found; so for a submission that is a single
\* INSERT INTO, UPDATE ... SET or DELETE FROM statement the reported
\* queryType is the kind of that statement
C36_QueryTypeByLeadingClause ==
    [][\A sql \in ImpactTexts :
          ProposeReceived(sql) =>
              /\ last'.req = nreq'
              /\ last'.ret = "needsConfirmation"
              /\ last'.body.estimatedImpact.queryType = LeadingQueryType(sql)]_vars

\* Range of a sequence of table names
TableSet(tables) == {tables[i] : i \in DOMAIN tables}

\* C37: for each of the INSERT INTO, UPDATE and DELETE FROM forms the
\* reported table is the identifier that follows the keyword, in lower
\* case, without surrounding backticks, double quotes or brackets, and a
\* schema-qualified name is reduced to its last segment; the reported
\* tables contain no duplicates
C37_TableNames ==
    [][\A c \in ImpactCorpus :
          ProposeReceived(c.text) =>
              /\ last'.req = nreq'
              /\ last'.ret = "needsConfirmation"
              /\ TableSet(last'.body.estimatedImpact.tables) = c.tables
              /\ Len(last'.body.estimatedImpact.tables) = Cardinality(c.tables)]_vars

\* the duration, in milliseconds, that an expiresIn text of the response
\* states
StatedLifetimeMs(expiresIn) ==
    CASE expiresIn = "5 minutes" -> 5 * 60 * 1000

\* C38: the expiresIn of a needsConfirmation response states the lifetime
\* that was applied to the token it carries, which is the configured token
\* expiration, whatever SQL_TOKEN_EXPIRATION_MS is set to
C38_ExpiresInIsTheLifetime ==
    last.ret = "needsConfirmation" =>
        LET token == last.body.confirmationToken
        IN  /\ token \in DOMAIN minted
            /\ minted[token].expiresAt - minted[token].at = tokenExpirationMs
            /\ StatedLifetimeMs(last.body.expiresIn) = tokenExpirationMs

\* C39: across repeated runMigrations calls, a run that follows a failed
\* run included, a migration statement that has executed successfully in
\* an earlier run is not executed again
C39_MigrationStatementsRunOnce ==
    \A k \in DOMAIN run.log :
        run.log[k].kind = "migration" =>
            <<run.log[k].file, run.log[k].statement>> \notin applied

\* ------------------------------------------------------------------- C40

\* the calls of executeTransaction
TransactionCalls == {c \in DOMAIN calls : calls[c].op = "executeTransaction"}

\* the statements call c has handed to the client, in the order it issued them
IssuedStatements(c) ==
    LET own == SelectSeq(clientLog, LAMBDA e : e.by = c)
    IN  [k \in DOMAIN own |-> own[k].sql]

\* the first statement of the log that was rejected, 0 when none was
FirstFailure(log) ==
    IF \E k \in DOMAIN log : ~log[k].ok
    THEN CHOOSE k \in DOMAIN log : ~log[k].ok /\ \A j \in 1..(k - 1) : log[j].ok
    ELSE 0

IsPrefix(a, b) == Len(a) <= Len(b) /\ \A k \in DOMAIN a : a[k] = b[k]

\* C40: executeTransaction(queries) issues BEGIN TRANSACTION, then the
\* queries in the given order, then COMMIT, and returns only when all of
\* them resolved; when one of them is rejected it issues nothing more of
\* them (no further query, no COMMIT), issues ROLLBACK, and rejects with the
\* value that statement was rejected with, also when the ROLLBACK is rejected
C40_TransactionStatements ==
    \A c \in TransactionCalls :
        LET t          == transactions[c]
            statements == transactionStatements(t.queries)
            issued     == IssuedStatements(c)
            f          == FirstFailure(t.log)
        IN  /\ f = 0 => IsPrefix(issued, statements)
            /\ calls[c].pc = "returned" =>
                 /\ f = 0
                 /\ issued = statements
                 /\ Len(t.log) = Len(statements)
            /\ f # 0 =>
                 /\ issued = SubSeq(statements, 1, f) \o <<RollbackStatement>>
                 /\ calls[c].pc \in {"rollback", "rejected"}
                 /\ calls[c].pc = "rejected" =>
                      /\ Len(t.log) = f + 1
                      /\ t.error = t.log[f].thrown
                      /\ calls[c].reason = <<errorText(t.log[f].thrown)>>

\* a transaction of two queries whose second query was rejected and whose
\* ROLLBACK was rejected with another value has rejected
C40_Witness ==
    \E c \in TransactionCalls :
        LET t == transactions[c]
        IN  /\ calls[c].pc = "rejected"
            /\ Len(t.queries) = 2
            /\ Len(t.log) = 4
            /\ t.log[1].ok /\ t.log[2].ok /\ ~t.log[3].ok /\ ~t.log[4].ok
            /\ t.log[4].sql = RollbackStatement
            /\ t.log[4].thrown # t.log[3].thrown

\* a transaction of two queries has returned
C40_WitnessCommitted ==
    \E c \in TransactionCalls :
        /\ calls[c].pc = "returned"
        /\ Len(transactions[c].queries) = 2
        /\ IssuedStatements(c) = transactionStatements(transactions[c].queries)

\* a transaction whose COMMIT was rejected has issued ROLLBACK after it
C40_WitnessCommitRejected ==
    \E c \in TransactionCalls :
        LET t == transactions[c]
        IN  /\ calls[c].pc = "rejected"
            /\ Len(t.log) = Len(t.queries) + 3
            /\ ~t.log[Len(t.queries) + 2].ok
            /\ t.log[Len(t.queries) + 2].sql = CommitStatement

====
